---- MODULE Spec2Model ----
(***************************************************************************)
(* Intent-Driven Cold Outreach Agent: the pipeline orchestrator            *)
(* (ReasoningAgent), its audit log, the authenticity revision loop and the *)
(* timeout race of the public entry point (IntentDrivenOutreachAgent).     *)
(*                                                                         *)
(* One agent instance serves NReq requests.  The code between two awaits   *)
(* runs without interruption and is one action here; at an await any other *)
(* request's continuation, or a timer, may run.  The revision loop has no  *)
(* await: while a request is inside it nothing else runs.                  *)
(*                                                                         *)
(* The audit log array of the agent is kept as the subsequences appended   *)
(* by each request (auditLog[r]): that is the array up to the relative     *)
(* order of entries of different requests.  The only reader of that order  *)
(* is getLastFailedStep, for which the step of the last failed entry is    *)
(* kept in lastFailed.                                                     *)
(***************************************************************************)
EXTENDS Integers, Sequences, FiniteSets, TLC

\* Number of requests handed to the one agent instance.
NReq == 2
\* Issues of one severity the evaluator may report on one draft: 0..MaxIssues.
MaxIssues == 2
\* Length at which a recorded sequence of audit entries saturates.
MaxLog == 24
\* Value at which the count of drafts of one request saturates.
MaxDrafts == 5
\* Among overlapping requests: how many departures from the plain run there
\* may be in all (a timer that expires, a request with a step that throws, a
\* request with a draft that is revised).
MaxFaults == 1

\* ReasoningAgent.MAX_REVISION_ATTEMPTS
MAX_REVISION_ATTEMPTS == 3

Requests == 1..NReq

\* An orchestrator that selects the strategy before it scores the confidence.
WorkflowStepsSwapped ==
  << "input_validation", "signal_interpretation", "hypothesis_formation",
     "strategy_selection", "confidence_scoring", "message_generation",
     "authenticity_filtering", "alternative_generation", "output_assembly" >>

\* The steps of processOutreachRequest, in program order.
WorkflowSteps ==
  << "input_validation", "signal_interpretation", "hypothesis_formation",
     "confidence_scoring", "strategy_selection", "message_generation",
     "authenticity_filtering", "alternative_generation", "output_assembly" >>

NSteps == Len(WorkflowSteps)

StepIndex(name) == CHOOSE i \in 1..NSteps : WorkflowSteps[i] = name

\* `authenticity_revision_${revisionAttempts}`
RevisionStep(n) ==
  CASE n = 0 -> "authenticity_revision_0"
    [] n = 1 -> "authenticity_revision_1"
    [] n = 2 -> "authenticity_revision_2"
    [] n = 3 -> "authenticity_revision_3"
    [] OTHER -> "authenticity_revision_n"

\* What a caller may pass: inputs the validator accepts, inputs it rejects,
\* and intentSignals that is no array (validateTimestamps then throws).
Inputs == {"valid", "invalid", "malformed"}

\* Values a step may throw: an Error (with its name) or something else.
Thrown == {"TypeError", "nonError"}

VARIABLES
  opc,              \* public entry point, per request: idle, racing, returned
  timer,            \* the setTimeout of the race: unset, pending, fired
  outcome,          \* what the public entry point returned, per request
  pc,               \* orchestrator, per request: idle, next, await, loop, caught, done
  step,             \* index in WorkflowSteps of the step the orchestrator is at
  settled,          \* how the awaited step function settled: ok, or the thrown value
  thrown,           \* the error travelling to the catch of processOutreachRequest
  auditLog,         \* ReasoningAgent.auditLog, as per-request subsequences
  lastFailed,       \* step of the last failed entry of the array, or "none"
  revisionAttempts, \* local of processMessageWithAuthenticity
  currentMessage,   \* local of processMessageWithAuthenticity: the draft's number
  drafts,           \* drafts produced for the request by step 6 and the loop
  verdict,          \* the evaluator's most recent result for the request
  input,            \* what the caller passed for the request
  output,           \* value the output_assembly step function returned
  innerResult,      \* value the orchestrator's processOutreachRequest resolved to
  winner,           \* which promise settled the race first: none, pipeline, timer
  exit,             \* how the revision loop was left (none, return, break, throw,
                    \* bound) and whether the last verdict still required revision
  own,              \* entries the request's own steps have recorded (history)
  config,           \* IntentDrivenOutreachAgent.config
  args,             \* arguments of a call of one component, made on its own
  result            \* what that call returned

vars == << opc, timer, outcome, pc, step, settled, thrown, auditLog, lastFailed,
           revisionAttempts, currentMessage, drafts, verdict, input, output,
           innerResult, winner, exit, own, config, args, result >>


Max(a, b) == IF a > b THEN a ELSE b
Min(a, b) == IF a < b THEN a ELSE b

----------------------------------------------------------------------------
(* The audit log *)

EmptyLog == [q \in Requests |-> << >>]

Cap(s) == IF Len(s) > MaxLog THEN SubSeq(s, 1, MaxLog) ELSE s

\* this.auditLog.push(...) of every entry of es, by request r.
Push(log, r, es) == [log EXCEPT ![r] = Cap(@ \o es)]

\* The entry logStepStart pushes.
logStepStart(s) == [step |-> s, status |-> "started", details |-> "none"]

\* The entry logStepComplete pushes; d stands for the details object.
logStepComplete(s, d) == [step |-> s, status |-> "completed", details |-> d]

\* The entry logStepFailed pushes.
logStepFailed(s) == [step |-> s, status |-> "failed", details |-> "error"]

\* All entries of the array, whoever pushed them.
Entries(log) == UNION { { log[q][i] : i \in 1..Len(log[q]) } : q \in Requests }

\* The distinct steps that have a completed entry in the array.
getExecutedSteps(log) == { e.step : e \in { x \in Entries(log) : x.status = "completed" } }

\* Step of the last failed entry of the array; "none" stands for undefined.
getLastFailedStep(last) == last

----------------------------------------------------------------------------
(* AuthenticityFilter: the verdict as a function of the issues found, *)
(* h of high, m of medium and l of low severity.                      *)

calculateAuthenticityScore(h, m, l) == Max(0, 100 - 25 * h - 15 * m - 5 * l)

shouldTriggerRevision(h, m, l, score) ==
  \/ score < 75
  \/ h > 0
  \/ m > 1
  \/ h + m + l > 3

evaluateAuthenticity(h, m, l) ==
  LET score == calculateAuthenticityScore(h, m, l)
      revisionRequired == shouldTriggerRevision(h, m, l, score)
  IN  [score |-> score,
       isAuthentic |-> score >= 70 /\ ~revisionRequired,
       revisionRequired |-> revisionRequired]

\* The loop of processMessageWithAuthenticity has not been left.
NotLeft == [by |-> "none", revisionRequired |-> FALSE, isAuthentic |-> FALSE]

\* The loop was left in the way `by` after the verdict v.
Left(by, v) ==
  [by |-> by, revisionRequired |-> v.revisionRequired, isAuthentic |-> v.isAuthentic]

NoVerdict == [score |-> 0, isAuthentic |-> FALSE, revisionRequired |-> FALSE, draft |-> 0]

----------------------------------------------------------------------------
(* OutputAssembler: what it does to the metadata *)

sanitizeWorkflowStep(s) ==
  CASE s = "input_validation"       -> "Input Processing"
    [] s = "signal_interpretation"  -> "Signal Analysis"
    [] s = "hypothesis_formation"   -> "Intent Analysis"
    [] s = "confidence_scoring"     -> "Confidence Assessment"
    [] s = "strategy_selection"     -> "Approach Selection"
    [] s = "message_generation"     -> "Message Creation"
    [] s = "authenticity_filtering" -> "Quality Review"
    [] s = "output_assembly"        -> "Output Preparation"
    [] OTHER                        -> s

\* metadata.auditLog.map(entry => ({...entry, details: undefined}))
DropDetails(log) ==
  [q \in Requests |-> [i \in 1..Len(log[q]) |-> [log[q][i] EXCEPT !.details = "none"]]]

----------------------------------------------------------------------------
(* Results: StructuredOutput | ProcessingError, as one record shape.  *)
(* auditLog is processingMetadata.auditLog of an output and           *)
(* context.auditLog of a failure; hasLog says whether there is one;   *)
(* live says that it is the agent's array itself, not a copy of it.   *)

NoResult ==
  [kind |-> "none", code |-> "none", step |-> "none", message |-> 0,
   hasLog |-> FALSE, auditLog |-> EmptyLog, live |-> FALSE,
   workflowSteps |-> {}]

Failure(code, s) == [NoResult EXCEPT !.kind = "failure", !.code = code, !.step = s]

\* ReasoningAgent.createProcessingError('VALIDATION_FAILED', ..., 'input_validation')
createProcessingError(code, s) == Failure(code, s)

\* handleWorkflowError(error): the failure built from the array as it is now.
handleWorkflowError(err, last) ==
  [Failure(IF err = "nonError" THEN "WORKFLOW_ERROR" ELSE err,
           IF getLastFailedStep(last) = "none" THEN "unknown" ELSE getLastFailedStep(last))
     EXCEPT !.hasLog = TRUE, !.live = TRUE]

\* createProcessingMetadata, then assembleOutput's cleanProcessingMetadata.
assembleOutput(message, log) ==
  [NoResult EXCEPT !.kind = "output", !.message = message, !.hasLog = TRUE,
                   !.auditLog = DropDetails(log),
                   !.workflowSteps = { sanitizeWorkflowStep(s) : s \in getExecutedSteps(log) }]

\* The audit entries a result shows now.
ResultLog(res) == IF res.live THEN auditLog ELSE res.auditLog

\* clearAuditLog assigns a new array: results holding the old one keep its content.
Freeze(res, log) == IF res.live THEN [res EXCEPT !.auditLog = log, !.live = FALSE] ELSE res

----------------------------------------------------------------------------
(* IntentDrivenOutreachAgent: the failures of the public entry point *)

\* new Error('Processing timeout exceeded')
TimeoutError == << "Processing", "timeout", "exceeded" >>

\* The TypeError of intentSignals.forEach when intentSignals is no array.
MalformedError == << "intentSignals.forEach", "is", "not", "a", "function" >>

\* error.message.includes('timeout')
includesTimeout(msg) == \E i \in 1..Len(msg) : msg[i] = "timeout"

\* A handler without the timeout branch.
handleProcessingErrorOneCode(msg) == Failure("PROCESSING_ERROR", "unknown")

handleProcessingError(msg) ==
  Failure(IF includesTimeout(msg) THEN "PROCESSING_TIMEOUT" ELSE "PROCESSING_ERROR", "unknown")

createValidationError == Failure("VALIDATION_FAILED", "input_validation")


----------------------------------------------------------------------------
(* The state after construction: no request has been made. *)

\* No component is called on its own.
NoCall == [fn |-> "none"]

\* new IntentDrivenOutreachAgent() is called without a configuration.
NoConfig == [k \in {} |-> 0]

\* this.config as the constructor sets it: the given value, or the default.
DefaultedConfig(c) ==
  [maxRevisionAttempts |->
     IF "maxRevisionAttempts" \in DOMAIN c THEN c.maxRevisionAttempts ELSE 3]

\* No request has been made of the agent.
NoRequests ==
  /\ opc = [r \in Requests |-> "idle"]
  /\ timer = [r \in Requests |-> "unset"]
  /\ outcome = [r \in Requests |-> NoResult]
  /\ pc = [r \in Requests |-> "idle"]
  /\ step = [r \in Requests |-> 0]
  /\ settled = [r \in Requests |-> "none"]
  /\ thrown = [r \in Requests |-> "none"]
  /\ auditLog = EmptyLog
  /\ lastFailed = "none"
  /\ revisionAttempts = [r \in Requests |-> 0]
  /\ currentMessage = [r \in Requests |-> 0]
  /\ drafts = [r \in Requests |-> 0]
  /\ verdict = [r \in Requests |-> NoVerdict]
  /\ input = [r \in Requests |-> "none"]
  /\ output = [r \in Requests |-> NoResult]
  /\ innerResult = [r \in Requests |-> NoResult]
  /\ winner = [r \in Requests |-> "none"]
  /\ exit = [r \in Requests |-> NotLeft]
  /\ own = EmptyLog

\* The pipeline before any request, of an agent made without a configuration.
Idle ==
  /\ config = DefaultedConfig(NoConfig)
  /\ NoRequests

pipeline ==
  << opc, timer, outcome, pc, step, settled, thrown, auditLog, lastFailed,
     revisionAttempts, currentMessage, drafts, verdict, input, output,
     innerResult, winner, exit, own, config >>

Init ==
  /\ Idle
  /\ args = NoCall
  /\ result = NoCall

\* No request is inside the revision loop, which runs without suspension.
Exclusive == \A q \in Requests : pc[q] # "loop"

\* InputValidator.validateInput(...).isValid
isValid(in) == in = "valid"

\* await Promise.race([processingPromise, timeoutPromise]) of request r when its
\* pipeline resolves to res: the first of the two to settle is what is returned.
RaceOutcome(r, res) == IF opc[r] = "racing" THEN [outcome EXCEPT ![r] = res] ELSE outcome

RaceOpc(r) == [opc EXCEPT ![r] = IF @ = "racing" THEN "returned" ELSE @]

RaceWinner(r, who) == [winner EXCEPT ![r] = IF opc[r] = "racing" THEN who ELSE @]


----------------------------------------------------------------------------
(* ReasoningAgent *)

\* The first stretch of ReasoningAgent.processOutreachRequest, up to the await
\* inside executeStep('input_validation'): clearAuditLog, logStepStart, the
\* validator's call.  Results that hold the old array keep what it held.
ReasoningAgent_processOutreachRequest(r) ==
  /\ auditLog' = Push(EmptyLog, r, << logStepStart(WorkflowSteps[1]) >>)
  /\ lastFailed' = "none"
  /\ own' = Push(own, r, << logStepStart(WorkflowSteps[1]) >>)
  /\ innerResult' = [q \in Requests |-> Freeze(innerResult[q], auditLog)]
  /\ outcome' = [q \in Requests |-> Freeze(outcome[q], auditLog)]
  /\ pc' = [pc EXCEPT ![r] = "await"]
  /\ step' = [step EXCEPT ![r] = 1]
  /\ settled' = [settled EXCEPT ![r] = "ok"]
  /\ UNCHANGED << config, args, result, thrown, revisionAttempts, currentMessage, drafts, verdict, output,
                  winner, exit >>

\* A catch that swallows the error: the orchestrator goes on to the next step.
executeStepSwallow(i) == [pc |-> "next", step |-> i + 1]

\* Where executeStep's catch leaves the orchestrator when step i has thrown:
\* the error is thrown again and reaches the catch of processOutreachRequest.
executeStepCatch(i) == [pc |-> "caught", step |-> i]

\* executeStep(stepName, stepFunction) up to its await, for the step the
\* orchestrator is at: logStepStart, then the call of the step function.  A
\* step function that throws is caught at once: logStepFailed, throw.
executeStep(r) ==
  LET i == step[r]
      s == WorkflowSteps[i]
  IN
  /\ Exclusive
  /\ pc[r] = "next"
  /\ i \in 1..NSteps
  /\ \/ \* the step function returns
        /\ s # "authenticity_filtering"
        /\ auditLog' = Push(auditLog, r, << logStepStart(s) >>)
        /\ own' = Push(own, r, << logStepStart(s) >>)
        /\ pc' = [pc EXCEPT ![r] = "await"]
        /\ settled' = [settled EXCEPT ![r] = "ok"]
        /\ currentMessage' = [currentMessage EXCEPT ![r] = IF s = "message_generation" THEN 1 ELSE @]
        /\ drafts' = [drafts EXCEPT ![r] = IF s = "message_generation" THEN 1 ELSE @]
        /\ output' = [output EXCEPT ![r] =
                        IF s = "output_assembly"
                        THEN assembleOutput(currentMessage[r], auditLog')
                        ELSE @]
        /\ UNCHANGED << step, thrown, lastFailed, revisionAttempts >>
     \/ \* the step function is processMessageWithAuthenticity: the loop is entered
        /\ s = "authenticity_filtering"
        /\ auditLog' = Push(auditLog, r, << logStepStart(s) >>)
        /\ own' = Push(own, r, << logStepStart(s) >>)
        /\ pc' = [pc EXCEPT ![r] = "loop"]
        /\ revisionAttempts' = [revisionAttempts EXCEPT ![r] = 0]
        /\ UNCHANGED << step, settled, thrown, lastFailed, currentMessage, drafts, output >>
     \/ \* the step function throws
        /\ s # "authenticity_filtering"
        /\ \E e \in Thrown :
             /\ auditLog' = Push(auditLog, r, << logStepStart(s), logStepFailed(s) >>)
             /\ own' = Push(own, r, << logStepStart(s), logStepFailed(s) >>)
             /\ lastFailed' = s
             /\ pc' = [pc EXCEPT ![r] = executeStepCatch(i).pc]
             /\ step' = [step EXCEPT ![r] = executeStepCatch(i).step]
             /\ thrown' = [thrown EXCEPT ![r] = e]
        /\ UNCHANGED << settled, revisionAttempts, currentMessage, drafts, output >>
  /\ UNCHANGED << config, args, result, opc, timer, outcome, verdict, input, innerResult, winner, exit >>


\* A loop whose counter does not advance.
NextAttemptStuck(n) == n

\* revisionAttempts++
NextAttempt(n) == n + 1

\* A loop that redrafts as long as the while condition holds.
MayReviseToTheLimit(v, n) == v.revisionRequired /\ n < MAX_REVISION_ATTEMPTS

\* A loop that redrafts once and then gives the draft back as it is.
MayReviseOnce(v, n) == v.revisionRequired /\ n < 1

\* authenticityResult.revisionRequired && revisionAttempts < MAX_REVISION_ATTEMPTS - 1
MayRevise(v, n) == v.revisionRequired /\ n < MAX_REVISION_ATTEMPTS - 1

\* A loop that gives up with an error when it breaks.
BreakRejects == "TypeError"

\* How the loop's break settles the step: the code after the loop returns
\* currentMessage, so the step function resolves.
BreakSettles == "ok"

\* The code after the while loop: the log entry of the exhausted budget, then
\* return currentMessage.  how is what the promise of the step settles with;
\* authenticityResult goes out of scope.
AfterLoop(r, how, left) ==
  /\ IF revisionAttempts[r] >= MAX_REVISION_ATTEMPTS
     THEN /\ auditLog' = Push(auditLog, r,
                 << logStepComplete("authenticity_filtering", "maxAttemptsReached") >>)
          /\ own' = Push(own, r,
                 << logStepComplete("authenticity_filtering", "maxAttemptsReached") >>)
     ELSE UNCHANGED << auditLog, own >>
  /\ pc' = [pc EXCEPT ![r] = "await"]
  /\ settled' = [settled EXCEPT ![r] = how]
  /\ exit' = [exit EXCEPT ![r] = left]
  /\ verdict' = [verdict EXCEPT ![r] = NoVerdict]
  /\ UNCHANGED << revisionAttempts, currentMessage, drafts >>

\* One pass of the while loop of processMessageWithAuthenticity (or its exit):
\* evaluate the current draft; return it, draft again, or break.
processMessageWithAuthenticity(r) ==
  /\ pc[r] = "loop"
  /\ IF revisionAttempts[r] < MAX_REVISION_ATTEMPTS
     THEN \E h \in 0..MaxIssues, m \in 0..MaxIssues, l \in 0..MaxIssues :
            LET v == evaluateAuthenticity(h, m, l)
                accept == v.isAuthentic /\ ~v.revisionRequired
                n == NextAttempt(revisionAttempts[r])
            IN
            \/ \* return currentMessage
               /\ accept
               /\ pc' = [pc EXCEPT ![r] = "await"]
               /\ settled' = [settled EXCEPT ![r] = "ok"]
               /\ exit' = [exit EXCEPT ![r] = Left("return", v)]
               /\ verdict' = [verdict EXCEPT ![r] = NoVerdict]
               /\ UNCHANGED << auditLog, own, revisionAttempts, currentMessage, drafts >>
            \/ \* a new draft from messageGenerator.generateMessage
               /\ ~accept
               /\ MayRevise(v, revisionAttempts[r])
               /\ revisionAttempts' = [revisionAttempts EXCEPT ![r] = n]
               /\ auditLog' = Push(auditLog, r,
                     << logStepStart(RevisionStep(n)),
                        logStepComplete(RevisionStep(n), "revision") >>)
               /\ own' = Push(own, r,
                     << logStepStart(RevisionStep(n)),
                        logStepComplete(RevisionStep(n), "revision") >>)
               /\ drafts' = [drafts EXCEPT ![r] = Min(@ + 1, MaxDrafts)]
               /\ currentMessage' = [currentMessage EXCEPT ![r] = drafts'[r]]
               /\ verdict' = [verdict EXCEPT ![r] =
                                [score |-> v.score,
                                 isAuthentic |-> v.isAuthentic,
                                 revisionRequired |-> v.revisionRequired,
                                 draft |-> currentMessage[r]]]
               /\ UNCHANGED << pc, settled, exit >>
            \/ \* generateMessage throws: the promise of the step rejects
               /\ ~accept
               /\ MayRevise(v, revisionAttempts[r])
               /\ \E e \in Thrown :
                    /\ revisionAttempts' = [revisionAttempts EXCEPT ![r] = n]
                    /\ auditLog' = Push(auditLog, r, << logStepStart(RevisionStep(n)) >>)
                    /\ own' = Push(own, r, << logStepStart(RevisionStep(n)) >>)
                    /\ pc' = [pc EXCEPT ![r] = "await"]
                    /\ settled' = [settled EXCEPT ![r] = e]
               /\ exit' = [exit EXCEPT ![r] = Left("throw", v)]
               /\ verdict' = [verdict EXCEPT ![r] = NoVerdict]
               /\ UNCHANGED << currentMessage, drafts >>
            \/ \* break
               /\ ~accept
               /\ ~MayRevise(v, revisionAttempts[r])
               /\ AfterLoop(r, BreakSettles, Left("break", v))
     ELSE AfterLoop(r, "ok", Left("bound", verdict[r]))
  /\ UNCHANGED << config, args, result, opc, timer, outcome, step, thrown, lastFailed, input, output,
                  innerResult, winner >>

\* executeStep after its await.  The step function has resolved:
\* logStepComplete, and processOutreachRequest goes on (to the next step, to
\* its return after a rejected validation, or to its final return).  Or the
\* step function has rejected: logStepFailed, throw.
executeStepSettled(r) ==
  LET i == step[r]
      s == WorkflowSteps[i]
      done == logStepComplete(s, "success")
      res == IF i = NSteps THEN output[r]
             ELSE createProcessingError("VALIDATION_FAILED", "input_validation")
  IN
  /\ Exclusive
  /\ pc[r] = "await"
  /\ \/ \* resolved, and the pipeline goes on
        /\ settled[r] = "ok"
        /\ i < NSteps
        /\ i = 1 => isValid(input[r])
        /\ auditLog' = Push(auditLog, r, << done >>)
        /\ own' = Push(own, r, << done >>)
        /\ pc' = [pc EXCEPT ![r] = "next"]
        /\ step' = [step EXCEPT ![r] = i + 1]
        /\ UNCHANGED << opc, outcome, innerResult, winner, thrown, lastFailed >>
     \/ \* resolved, and processOutreachRequest returns
        /\ settled[r] = "ok"
        /\ i = NSteps \/ (i = 1 /\ ~isValid(input[r]))
        /\ auditLog' = Push(auditLog, r, << done >>)
        /\ own' = Push(own, r, << done >>)
        /\ pc' = [pc EXCEPT ![r] = "done"]
        /\ innerResult' = [innerResult EXCEPT ![r] = res]
        /\ outcome' = RaceOutcome(r, res)
        /\ opc' = RaceOpc(r)
        /\ winner' = RaceWinner(r, "pipeline")
        /\ UNCHANGED << step, thrown, lastFailed >>
     \/ \* rejected
        /\ settled[r] # "ok"
        /\ auditLog' = Push(auditLog, r, << logStepFailed(s) >>)
        /\ own' = Push(own, r, << logStepFailed(s) >>)
        /\ lastFailed' = s
        /\ pc' = [pc EXCEPT ![r] = executeStepCatch(i).pc]
        /\ step' = [step EXCEPT ![r] = executeStepCatch(i).step]
        /\ thrown' = [thrown EXCEPT ![r] = settled[r]]
        /\ UNCHANGED << opc, outcome, innerResult, winner >>
  /\ UNCHANGED << config, args, result, timer, settled, revisionAttempts, currentMessage, drafts, verdict,
                  input, output, exit >>

\* The catch of ReasoningAgent.processOutreachRequest: handleWorkflowError.
processOutreachRequestCatch(r) ==
  LET res == handleWorkflowError(thrown[r], lastFailed)
  IN
  /\ Exclusive
  /\ pc[r] = "caught"
  /\ pc' = [pc EXCEPT ![r] = "done"]
  /\ innerResult' = [innerResult EXCEPT ![r] = res]
  /\ outcome' = RaceOutcome(r, res)
  /\ opc' = RaceOpc(r)
  /\ winner' = RaceWinner(r, "pipeline")
  /\ UNCHANGED << config, args, result, timer, step, settled, thrown, auditLog, lastFailed, revisionAttempts,
                  currentMessage, drafts, verdict, input, output, exit, own >>

----------------------------------------------------------------------------
(* IntentDrivenOutreachAgent *)

\* A catch that throws the error again: the promise of the call rejects.
processOutreachRequestOuterRethrow(msg) == [NoResult EXCEPT !.kind = "rejected"]

\* The catch of IntentDrivenOutreachAgent.processOutreachRequest.
processOutreachRequestOuterCatch(msg) == handleProcessingError(msg)

\* IntentDrivenOutreachAgent.processOutreachRequest up to its await of the race:
\* validateInputs, the call of the orchestrator, the timer.
IntentDrivenOutreachAgent_processOutreachRequest(r) ==
  /\ Exclusive
  /\ opc[r] = "idle"
  /\ pc[r] = "idle"
  /\ \E in \in Inputs :
       /\ input' = [input EXCEPT ![r] = in]
       /\ \/ \* validateInputs throws
             /\ in = "malformed"
             /\ outcome' = [outcome EXCEPT ![r] = processOutreachRequestOuterCatch(MalformedError)]
             /\ opc' = [opc EXCEPT ![r] = "returned"]
             /\ UNCHANGED << config, args, result, timer, pc, step, settled, thrown, auditLog, lastFailed,
                             revisionAttempts, currentMessage, drafts, verdict, output,
                             innerResult, winner, exit, own >>
          \/ \* the input is rejected
             /\ in = "invalid"
             /\ outcome' = [outcome EXCEPT ![r] = createValidationError]
             /\ opc' = [opc EXCEPT ![r] = "returned"]
             /\ UNCHANGED << config, args, result, timer, pc, step, settled, thrown, auditLog, lastFailed,
                             revisionAttempts, currentMessage, drafts, verdict, output,
                             innerResult, winner, exit, own >>
          \/ \* the orchestrator is called and the timer set
             /\ in = "valid"
             /\ ReasoningAgent_processOutreachRequest(r)
             /\ timer' = [timer EXCEPT ![r] = "pending"]
             /\ opc' = [opc EXCEPT ![r] = "racing"]

\* The callback of setTimeout: reject(new Error('Processing timeout exceeded')).
\* If the race is still undecided the entry point's catch returns the failure.
TimerFires(r) ==
  /\ Exclusive
  /\ timer[r] = "pending"
  /\ timer' = [timer EXCEPT ![r] = "fired"]
  /\ outcome' = RaceOutcome(r, processOutreachRequestOuterCatch(TimeoutError))
  /\ opc' = RaceOpc(r)
  /\ winner' = RaceWinner(r, "timer")
  /\ UNCHANGED << config, args, result, pc, step, settled, thrown, auditLog, lastFailed, revisionAttempts,
                  currentMessage, drafts, verdict, input, output, innerResult, exit, own >>

----------------------------------------------------------------------------

\* The caller of request r has its result and the pipeline has ended: the
\* caller's next request takes the place of r.  (A timer the call left behind
\* expires without effect and is not followed further.)
NextRequest(r) ==
  /\ opc[r] = "returned"
  /\ pc[r] = "done"
  /\ opc' = [opc EXCEPT ![r] = "idle"]
  /\ timer' = [timer EXCEPT ![r] = "unset"]
  /\ outcome' = [outcome EXCEPT ![r] = NoResult]
  /\ pc' = [pc EXCEPT ![r] = "idle"]
  /\ step' = [step EXCEPT ![r] = 0]
  /\ settled' = [settled EXCEPT ![r] = "none"]
  /\ thrown' = [thrown EXCEPT ![r] = "none"]
  /\ revisionAttempts' = [revisionAttempts EXCEPT ![r] = 0]
  /\ currentMessage' = [currentMessage EXCEPT ![r] = 0]
  /\ drafts' = [drafts EXCEPT ![r] = 0]
  /\ verdict' = [verdict EXCEPT ![r] = NoVerdict]
  /\ input' = [input EXCEPT ![r] = "none"]
  /\ output' = [output EXCEPT ![r] = NoResult]
  /\ innerResult' = [innerResult EXCEPT ![r] = NoResult]
  /\ winner' = [winner EXCEPT ![r] = "none"]
  /\ exit' = [exit EXCEPT ![r] = NotLeft]
  /\ own' = [own EXCEPT ![r] = << >>]
  /\ UNCHANGED << config, args, result, auditLog, lastFailed >>

\* What a request does once it has been made.
Continue(r) ==
  \/ executeStep(r)
  \/ processMessageWithAuthenticity(r)
  \/ executeStepSettled(r)
  \/ processOutreachRequestCatch(r)
  \/ TimerFires(r)

\* One caller, which makes its requests one after the other.
Caller == CHOOSE r \in Requests : \A q \in Requests : r <= q

Next ==
  \/ IntentDrivenOutreachAgent_processOutreachRequest(Caller)
  \/ Continue(Caller)
  \/ NextRequest(Caller)

Spec == Init /\ [][Next]_vars

\* Callers that make their requests without waiting for one another; the
\* requests are numbered in the order in which they are made.
Budget ==
  Cardinality({r \in Requests : timer[r] = "fired"})
    + Cardinality({r \in Requests : thrown[r] # "none" \/ settled[r] \notin {"none", "ok"}})
    + Cardinality({r \in Requests : revisionAttempts[r] > 0})
    <= MaxFaults

ConcurrentNext ==
  \E r \in Requests :
    \/ /\ \A q \in Requests : q < r => opc[q] # "idle"
       /\ IntentDrivenOutreachAgent_processOutreachRequest(r)
       /\ Budget'
    \/ executeStep(r) /\ Budget'
    \/ processMessageWithAuthenticity(r) /\ Budget'
    \/ executeStepSettled(r) /\ Budget'
    \/ processOutreachRequestCatch(r) /\ Budget'
    \/ TimerFires(r) /\ Budget'

ConcurrentSpec == Init /\ [][ConcurrentNext]_vars

\* A function that is running goes on running: the revision loop holds no
\* await, so once entered it is executed to its end.
FairSpec == Spec /\ \A r \in Requests : WF_vars(processMessageWithAuthenticity(r))

----------------------------------------------------------------------------
(* What the properties speak about *)

\* Positions of the failed entries request r has recorded.
FailedAt(r) == { i \in 1..Len(own[r]) : own[r][i].status = "failed" }

\* Request r left the revision loop by its break while the verdict on the
\* last draft still required revision.
Exhausted(r) == exit[r].by = "break" /\ exit[r].revisionRequired

\* The caller of request r has its result, and it is the pipeline's.
PipelineReturned(r) == opc[r] = "returned" /\ winner[r] = "pipeline"

\* The caller of request r has its result, and it is the timeout's.
TimeoutReturned(r) == opc[r] = "returned" /\ winner[r] = "timer"

\* Sequence a shows exactly the first n entries of b, details apart.
SameEntries(a, b, n) ==
  /\ Len(a) = n
  /\ n <= Len(b)
  /\ \A i \in 1..n : a[i].step = b[i].step /\ a[i].status = b[i].status

----------------------------------------------------------------------------
(* Properties *)

\* C1: for a single request the revision loop makes at most 3 draft attempts
\* in all, the first draft and at most 2 re-drafts, whatever the verdicts of
\* the evaluator are.
C1_AtMostThreeDrafts ==
  \A r \in Requests : drafts[r] <= 3 /\ revisionAttempts[r] <= 2

\* A request whose every draft was sent back: three drafts, then the break.
C1_ThreeDraftsReached ==
  \E r \in Requests : drafts[r] = 3 /\ revisionAttempts[r] = 2 /\ Exhausted(r)

\* C2: the revision loop always terminates, by its attempt counter alone: a
\* request that is in the loop leaves it, whatever the evaluator answers.
C2_LoopTerminates ==
  \A r \in Requests : (pc[r] = "loop") ~> (pc[r] # "loop")

\* A request has left the loop after the evaluator demanded revision of
\* every draft.
C2_LeftAfterAllRejected ==
  \E r \in Requests : pc[r] # "loop" /\ Exhausted(r) /\ revisionAttempts[r] = 2

\* C3: when a core step throws, the orchestrator halts at once: the request
\* records no started entry after the failed one, and the orchestrator is in
\* its catch or has returned, so that it calls no later component.
C3_HaltsOnThrow ==
  \A r \in Requests : \A i \in FailedAt(r) :
    /\ \A j \in (i + 1)..Len(own[r]) : own[r][j].status # "started"
    /\ pc[r] \in {"caught", "done"}

\* A request failed at a step that is not the last, and has returned.
C3_FailedBeforeLastStep ==
  \E r \in Requests :
    /\ FailedAt(r) # {}
    /\ step[r] < NSteps
    /\ pc[r] = "done"
    /\ innerResult[r].kind = "failure"

\* C4: when a core step of a request throws, the failure returned for that
\* request names exactly the step of the request's failed entry, never
\* 'unknown' and never a step of another request.
C4_FailureNamesFailedStep ==
  \A r \in Requests :
    (PipelineReturned(r) /\ FailedAt(r) # {}) =>
      /\ outcome[r].kind = "failure"
      /\ \A i \in FailedAt(r) : outcome[r].step = own[r][i].step

\* A request whose step threw has returned the pipeline's failure.
C4_FailureReturned ==
  \E r \in Requests :
    PipelineReturned(r) /\ FailedAt(r) # {} /\ outcome[r].kind = "failure"

\* C5: the call never throws uncaught: whatever the input and whatever the
\* steps and the timer do, what the caller gets is an output or a failure
\* value, and so is what the orchestrator resolves to.
C5_AlwaysAValue ==
  \A r \in Requests :
    /\ opc[r] = "returned" => outcome[r].kind \in {"output", "failure"}
    /\ pc[r] = "done" => innerResult[r].kind \in {"output", "failure"}

\* A failure value was returned for an input that made validateInputs throw.
C5_ErrorReturnedAsValue ==
  \E r \in Requests :
    opc[r] = "returned" /\ input[r] = "malformed" /\ outcome[r].kind = "failure"

\* C6: audit entries are never shared across requests: the entries a
\* returned result shows are the entries of the request's own steps, every
\* one of them (up to the final entry of the output's own assembly), and no
\* entry of another request.
C6_AuditNotShared ==
  \A r \in Requests :
    (opc[r] = "returned" /\ outcome[r].hasLog) =>
      /\ \A q \in Requests \ {r} : ResultLog(outcome[r])[q] = << >>
      /\ SameEntries(ResultLog(outcome[r])[r], own[r],
                     IF outcome[r].kind = "output" THEN Len(own[r]) - 1 ELSE Len(own[r]))

\* Two requests overlap and one of them has returned a result with a log.
C6_OverlappingRequests ==
  \E r \in Requests : \E q \in Requests \ {r} :
    opc[r] = "returned" /\ outcome[r].hasLog /\ own[q] # << >>

C8_BestEffortFlagged ==
  \A r \in Requests :
    Exhausted(r) =>
      \E i \in 1..Len(own[r]) : own[r][i].details = "maxAttemptsReached"

\* A request exhausted its attempts and its authenticity_filtering step
\* was recorded as completed.
C8_ExhaustedStepCompleted ==
  \E r \in Requests :
    /\ Exhausted(r)
    /\ \E i \in 1..Len(own[r]) :
         own[r][i].step = "authenticity_filtering" /\ own[r][i].status = "completed"

CoreOrder ==
  << "input_validation", "signal_interpretation", "hypothesis_formation",
     "confidence_scoring", "strategy_selection", "message_generation",
     "authenticity_filtering" >>

\* Entry e records the start of one of the core steps.
IsCoreStart(e) ==
  e.status = "started" /\ \E k \in 1..Len(CoreOrder) : CoreOrder[k] = e.step

\* The started entries of the core steps request r has recorded, in order.
CoreStarts(r) == SelectSeq(own[r], IsCoreStart)

\* C11: for a valid input the core steps are started in the fixed order
\* input_validation, signal_interpretation, hypothesis_formation,
\* confidence_scoring, strategy_selection, message_generation,
\* authenticity_filtering, each once and none skipped, and when the result
\* is a success each of them has a completed entry.
C11_StepsInFixedOrder ==
  \A r \in Requests :
    input[r] = "valid" =>
      /\ Len(CoreStarts(r)) <= Len(CoreOrder)
      /\ \A k \in 1..Len(CoreStarts(r)) : CoreStarts(r)[k].step = CoreOrder[k]
      /\ (pc[r] = "done" /\ innerResult[r].kind = "output") =>
           /\ Len(CoreStarts(r)) = Len(CoreOrder)
           /\ \A k \in 1..Len(CoreOrder) :
                \E i \in 1..Len(own[r]) :
                  own[r][i].step = CoreOrder[k] /\ own[r][i].status = "completed"

\* A valid request went through a revision and ended in a success.
C11_SuccessAfterAllSteps ==
  \E r \in Requests :
    /\ input[r] = "valid"
    /\ pc[r] = "done"
    /\ innerResult[r].kind = "output"
    /\ revisionAttempts[r] > 0
    /\ Len(CoreStarts(r)) = 7

\* The array holds an entry of step s with status st.
HasEntry(s, st) == \E e \in Entries(auditLog) : e.step = s /\ e.status = st

\* No request is being processed by the orchestrator.
Quiescent == \A r \in Requests : pc[r] \in {"idle", "done"}

\* C12: after a processing request every step name in the audit log has a
\* started entry, and every step without a failed entry has a completed one.
C12_AuditLogMaintained ==
  Quiescent =>
    \A e \in Entries(auditLog) :
      /\ HasEntry(e.step, "started")
      /\ ~HasEntry(e.step, "failed") => HasEntry(e.step, "completed")

\* A request has ended after the redraft of a revision threw.
C12_RevisionThrew ==
  \E r \in Requests :
    pc[r] = "done" /\ exit[r].by = "throw" /\ innerResult[r].kind = "failure"

----------------------------------------------------------------------------
(* Texts and numbers of the components.  A text is the sequence of its   *)
(* words in lower case; scores are in thousandths, weights (products of  *)
(* three scores) in millionths, times in days.                           *)

\* text.toLowerCase().includes(phrase), word by word.
Includes(text, phrase) ==
  \E i \in 0..(Len(text) - Len(phrase)) :
    \A j \in 1..Len(phrase) : text[i + j] = phrase[j]

\* phrases.some(p => text.includes(p))
IncludesSome(text, phrases) == \E ph \in phrases : Includes(text, ph)

RECURSIVE Join(_)
\* texts.join(' ')
Join(texts) == IF texts = << >> THEN << >> ELSE Head(texts) \o Join(Tail(texts))

RECURSIVE SumRange(_, _, _)
SumRange(ns, a, b) ==
  IF a > b THEN 0
  ELSE IF a = b THEN ns[a]
  ELSE SumRange(ns, a, (a + b) \div 2) + SumRange(ns, (a + b) \div 2 + 1, b)

\* The sum of the numbers of a list.
Sum(ns) == SumRange(ns, 1, Len(ns))

Abs(n) == IF n < 0 THEN -n ELSE n

----------------------------------------------------------------------------
(* SignalInterpreter *)

FRESHNESS_DECAY_DAYS == 30
MAX_SIGNAL_AGE_DAYS == 90

\* calculateFreshnessScore(timestamp) when the clock reads now; exact for
\* ages that are multiples of 3 days.
calculateFreshnessScore(timestamp, now) ==
  LET ageInDays == now - timestamp
  IN  IF ageInDays < 0 THEN 1000
      ELSE IF ageInDays > MAX_SIGNAL_AGE_DAYS THEN 100
      ELSE IF ageInDays <= FRESHNESS_DECAY_DAYS
           THEN Max(100, 1000 - (ageInDays * 700) \div FRESHNESS_DECAY_DAYS)
           ELSE Max(100, 300 - ((ageInDays - FRESHNESS_DECAY_DAYS) * 200)
                                 \div (MAX_SIGNAL_AGE_DAYS - FRESHNESS_DECAY_DAYS))

\* Math.abs(score - 0.5) < 0.2 for a score written in thousandths: in
\* doubles 0.7 - 0.5 is 0.19999999999999996, and 0.5 - 0.3 is 0.2.
IsUnclear(score) == Abs(score - 500) < 200 \/ score = 700

applyConservativeInterpretation(relevanceScore, freshnessScore) ==
  LET relevanceUncertainty == IsUnclear(relevanceScore)
      freshnessUncertainty == IsUnclear(freshnessScore)
  IN  IF /\ relevanceScore >= 300 /\ relevanceScore <= 700
         /\ freshnessScore >= 300 /\ freshnessScore <= 700
      THEN 800
      ELSE IF /\ relevanceScore < 400 \/ freshnessScore < 400
              /\ relevanceUncertainty \/ freshnessUncertainty
      THEN 700
      ELSE IF relevanceScore < 300 /\ freshnessScore < 300
      THEN 600
      ELSE 1000

\* calculateWeight, in millionths.
calculateWeight(relevanceScore, freshnessScore) ==
  LET normalizedRelevance ==
        IF relevanceScore < 0 \/ relevanceScore > 1000 THEN 10 ELSE relevanceScore
      normalizedFreshness == IF freshnessScore < 0 THEN 10 ELSE freshnessScore
      conservativePenalty ==
        applyConservativeInterpretation(normalizedRelevance, normalizedFreshness)
      baseWeight ==
        (normalizedRelevance * normalizedFreshness * conservativePenalty) \div 1000
  IN  Max(10000, Min(1000000, baseWeight))

interpretSingleSignal(signal, now) ==
  LET freshnessScore == calculateFreshnessScore(signal.timestamp, now)
  IN  [type |-> signal.type,
       description |-> signal.description,
       relevanceScore |-> signal.relevanceScore,
       timestamp |-> signal.timestamp,
       weight |-> calculateWeight(signal.relevanceScore, freshnessScore),
       freshnessScore |-> freshnessScore]

interpretSignals(intentSignals, now) ==
  [i \in 1..Len(intentSignals) |-> interpretSingleSignal(intentSignals[i], now)]

----------------------------------------------------------------------------
(* ConfidenceScorer *)

HIGH_CONFIDENCE_MIN_SIGNALS == 2
HIGH_CONFIDENCE_MIN_WEIGHT == 700000
HIGH_CONFIDENCE_MIN_FRESHNESS == 600
HIGH_CONFIDENCE_MIN_RELEVANCE == 700
MEDIUM_CONFIDENCE_MIN_WEIGHT == 300000
MEDIUM_CONFIDENCE_MIN_FRESHNESS == 150
WEAK_SIGNAL_THRESHOLD == 300000

\* signal.weight && !isNaN(signal.weight) && signal.weight > 0
IsValidSignal(signal) == signal.weight > 0

riskyAssumptions ==
  { << "urgent" >>, << "immediate" >>, << "critical" >>, << "must", "act" >>,
    << "limited", "time" >>, << "exclusive" >>, << "special", "offer" >>,
    << "guaranteed" >>, << "proven", "results" >> }

conservativeKeywords ==
  { << "may", "be", "appropriate" >>,
    << "general", "business", "discussion" >>,
    << "timing", "may", "be" >>,
    << "potential", "relevance" >>,
    << "assumes", "business", "relevance" >> }

criticalAssumptions ==
  { << "no", "specific", "intent", "can", "be", "confidently", "determined" >>,
    << "insufficient", "valid", "signals" >>,
    << "weak", "signal", "strength" >>,
    << "no", "supporting", "evidence", "available" >> }

hasConservativeIndicators(hypothesis) ==
  \/ IncludesSome(hypothesis.primaryReason, conservativeKeywords)
  \/ /\ Len(hypothesis.conservativeAssumptions) > 0
     /\ IncludesSome(Join(hypothesis.conservativeAssumptions), criticalAssumptions)

\* Number of the signals that satisfy Test.
Count(signals, Test(_)) == Cardinality({ i \in 1..Len(signals) : Test(signals[i]) })

IsWeak(signal) == signal.weight < WEAK_SIGNAL_THRESHOLD
IsDirect(signal) == signal.type \in {"job_change", "funding_event"}

\* applySafetyPrioritization: "Low", or "null" when there is no override.
applySafetyPrioritization(hypothesis, signals) ==
  LET hypothesisText == hypothesis.primaryReason \o Join(hypothesis.supportingEvidence)
      weakEvidenceCount == Count(signals, IsWeak)
      totalSignals == Len(signals)
      signalTypes == { signals[i].type : i \in 1..Len(signals) }
      hasConflictingTypes == Cardinality(signalTypes) > 3 /\ Len(signals) > 3
      totalWeight == Sum([i \in 1..Len(signals) |-> signals[i].weight])
  IN  IF IncludesSome(hypothesisText, riskyAssumptions) THEN "Low"
      ELSE IF weakEvidenceCount * 10 > 8 * totalSignals THEN "Low"
      ELSE IF hasConflictingTypes /\ totalWeight * 2 < 1000000 * totalSignals THEN "Low"
      ELSE "null"

calculateSignalMetrics(signals) ==
  [totalSignals |-> Len(signals),
   strongSignals |-> Len(signals) - Count(signals, IsWeak),
   weakSignals |-> Count(signals, IsWeak),
   directSignals |-> Count(signals, IsDirect),
   totalWeight |-> Sum([i \in 1..Len(signals) |-> signals[i].weight]),
   totalFreshness |-> Sum([i \in 1..Len(signals) |-> signals[i].freshnessScore]),
   totalRelevance |-> Sum([i \in 1..Len(signals) |-> signals[i].relevanceScore]),
   maxWeight |-> CHOOSE w \in { signals[i].weight : i \in 1..Len(signals) } :
                   \A i \in 1..Len(signals) : signals[i].weight <= w,
   maxFreshness |-> CHOOSE f \in { signals[i].freshnessScore : i \in 1..Len(signals) } :
                   \A i \in 1..Len(signals) : signals[i].freshnessScore <= f]

\* The averages of the metrics are compared as totals: avg >= t iff
\* total >= t * totalSignals.
meetsHighConfidenceCriteria(metrics) ==
  LET n == metrics.totalSignals
  IN  IF n < HIGH_CONFIDENCE_MIN_SIGNALS THEN FALSE
      ELSE IF metrics.weakSignals > 0 THEN FALSE
      ELSE IF metrics.totalWeight < HIGH_CONFIDENCE_MIN_WEIGHT * n THEN FALSE
      ELSE IF metrics.totalFreshness < HIGH_CONFIDENCE_MIN_FRESHNESS * n THEN FALSE
      ELSE IF metrics.totalRelevance < HIGH_CONFIDENCE_MIN_RELEVANCE * n THEN FALSE
      ELSE IF metrics.directSignals = 0 /\ n >= 2
           THEN metrics.totalWeight >= 800000 * n /\ metrics.totalFreshness >= 700 * n
           ELSE TRUE

meetsMediumConfidenceCriteria(metrics) ==
  LET n == metrics.totalSignals
  IN  IF n = 0 THEN FALSE
      ELSE IF metrics.totalWeight < MEDIUM_CONFIDENCE_MIN_WEIGHT * n THEN FALSE
      ELSE IF metrics.strongSignals = 0 THEN FALSE
      ELSE IF /\ metrics.totalFreshness < MEDIUM_CONFIDENCE_MIN_FRESHNESS * n
              /\ metrics.totalWeight >= 350000 * n
           THEN TRUE
      ELSE IF /\ metrics.totalFreshness < MEDIUM_CONFIDENCE_MIN_FRESHNESS * n
              /\ metrics.totalWeight >= 300000 * n
              /\ metrics.maxFreshness < 100
           THEN FALSE
      ELSE IF metrics.weakSignals * 10 > 7 * n
           THEN metrics.maxWeight >= 300000 \/ metrics.totalWeight >= 350000 * n
           ELSE TRUE

\* A scorer without the conservative-indicator override.
scoreConfidenceBySignalsOnly(hypothesis, signals) ==
  LET validSignals == SelectSeq(signals, IsValidSignal)
  IN  IF Len(signals) = 0 THEN "Low"
      ELSE IF Len(validSignals) = 0 THEN "Low"
      ELSE IF applySafetyPrioritization(hypothesis, validSignals) # "null"
           THEN applySafetyPrioritization(hypothesis, validSignals)
      ELSE IF meetsHighConfidenceCriteria(calculateSignalMetrics(validSignals)) THEN "High"
      ELSE IF meetsMediumConfidenceCriteria(calculateSignalMetrics(validSignals)) THEN "Medium"
      ELSE "Low"

\* scoreConfidence(hypothesis, signals): "High", "Medium" or "Low".
scoreConfidence(hypothesis, signals) ==
  LET validSignals == SelectSeq(signals, IsValidSignal)
  IN  IF Len(signals) = 0 THEN "Low"
      ELSE IF Len(validSignals) = 0 THEN "Low"
      ELSE IF hasConservativeIndicators(hypothesis) THEN "Low"
      ELSE IF applySafetyPrioritization(hypothesis, validSignals) # "null"
           THEN applySafetyPrioritization(hypothesis, validSignals)
      ELSE IF meetsHighConfidenceCriteria(calculateSignalMetrics(validSignals)) THEN "High"
      ELSE IF meetsMediumConfidenceCriteria(calculateSignalMetrics(validSignals)) THEN "Medium"
      ELSE "Low"

----------------------------------------------------------------------------
(* HypothesisFormer *)

MIN_SIGNAL_WEIGHT_THRESHOLD == 300000
MIN_TOTAL_WEIGHT_THRESHOLD == 500000
MIN_SIGNALS_FOR_HYPOTHESIS == 1

\* description.trim().length: the letters of the words and the blanks between.
Chars(text) ==
  IF Len(text) = 0 THEN 0
  ELSE Sum([i \in 1..Len(text) |-> Len(text[i])]) + Len(text) - 1

\* signal.weight && !isNaN(signal.weight) && signal.weight > 0.01
IsUsableSignal(signal) == signal.weight > 10000

IsStrong(signal) == signal.weight >= MIN_SIGNAL_WEIGHT_THRESHOLD

\* Array.prototype.sort with (a, b) => b.weight - a.weight: descending and
\* stable, equal weights keep their order.
RECURSIVE SortByWeight(_)
SortByWeight(signals) ==
  IF Len(signals) = 0 THEN << >>
  ELSE LET sorted == SortByWeight(SubSeq(signals, 1, Len(signals) - 1))
           s == signals[Len(signals)]
           k == Cardinality({ i \in 1..Len(sorted) : sorted[i].weight >= s.weight })
       IN  SubSeq(sorted, 1, k) \o << s >> \o SubSeq(sorted, k + 1, Len(sorted))

createConservativeHypothesis(reason, signals, withSignals) ==
  [primaryReason |->
     << "timing", "may", "be", "appropriate", "for", "general", "business",
        "discussion" >>,
   supportingEvidence |->
     IF withSignals
     THEN [i \in 1..Min(2, Len(signals)) |->
             << "weak", "signal" >> \o signals[i].description]
     ELSE << << "no", "supporting", "evidence", "available" >> >>,
   confidenceFactors |->
     << << "conservative", "approach", "due", "to", "limited", "evidence" >> >>,
   conservativeAssumptions |->
     << reason,
        << "no", "specific", "intent", "can", "be", "confidently", "determined" >>,
        << "general", "business", "relevance", "assumed", "only" >> >>]

vagueIndicators ==
  { "might", "could", "possibly", "perhaps", "maybe", "likely", "seems",
    "appears", "suggests", "indicates", "implies", "assumed", "estimated",
    "projected", "expected" }

factualIndicators ==
  { "announced", "confirmed", "reported", "published", "stated", "hired",
    "appointed", "promoted", "launched", "acquired", "raised", "received",
    "completed", "signed", "implemented" }

hasValidEvidence(signal) ==
  IF Chars(signal.description) < 10 THEN FALSE
  ELSE IF Cardinality({ w \in vagueIndicators : Includes(signal.description, << w >>) }) > 2
       THEN FALSE
  ELSE \/ \E w \in factualIndicators : Includes(signal.description, << w >>)
       \/ signal.relevanceScore >= 700

isGroundedInEvidence(signal) ==
  LET keywords ==
        CASE signal.type = "job_change" ->
               { "hired", "promoted", "appointed", "joined", "role", "position" }
          [] signal.type = "funding_event" ->
               { "funding", "investment", "raised", "capital", "round", "investor" }
          [] signal.type = "technology_adoption" ->
               { "technology", "tech", "system", "platform", "software", "tool" }
          [] signal.type = "company_growth" ->
               { "growth", "expansion", "scaling", "hiring", "revenue", "market" }
          [] signal.type = "industry_trend" ->
               { "industry", "market", "trend", "sector", "regulation", "compliance" }
          [] OTHER -> { }
  IN  \E w \in keywords : Includes(signal.description, << w >>)

conservativeReasons(type) ==
  CASE type = "job_change" ->
         << "recent", "role", "change", "may", "create", "new", "priorities",
            "and", "decision-making", "authority" >>
    [] type = "funding_event" ->
         << "recent", "funding", "may", "enable", "new", "initiatives", "and",
            "technology", "investments" >>
    [] type = "technology_adoption" ->
         << "technology", "changes", "may", "indicate", "evolving", "business",
            "needs" >>
    [] type = "company_growth" ->
         << "company", "growth", "may", "create", "new", "operational",
            "challenges", "and", "opportunities" >>
    [] type = "industry_trend" ->
         << "industry", "developments", "may", "influence", "strategic",
            "planning", "and", "priorities" >>
    [] OTHER -> << "business", "context", "suggests", "potential", "relevance" >>

formulatePrimaryReason(primarySignal) ==
  IF ~isGroundedInEvidence(primarySignal)
  THEN << "general", "business", "timing", "may", "be", "appropriate", "for",
          "discussion" >>
  ELSE IF primarySignal.freshnessScore > 800
       THEN conservativeReasons(primarySignal.type) \o << "recent", "development" >>
       ELSE conservativeReasons(primarySignal.type)

getSignalTypeDescription(signalType) ==
  CASE signalType = "job_change" -> << "role", "transition" >>
    [] signalType = "funding_event" -> << "funding", "activity" >>
    [] signalType = "technology_adoption" -> << "technology", "change" >>
    [] signalType = "company_growth" -> << "growth", "indicator" >>
    [] signalType = "industry_trend" -> << "industry", "trend" >>
    [] OTHER -> << "business", "signal" >>

IsRecent(signal) == signal.freshnessScore > 700
IsHighRelevance(signal) == signal.relevanceScore > 800
IsOld(signal) == signal.freshnessScore < 500
IsIndirect(signal) == signal.type \in {"industry_trend", "company_growth"}

identifyConfidenceFactors(strongSignals) ==
  LET factors ==
        (IF Len(strongSignals) > 1
         THEN << << "multiple", "supporting", "signals", ToString(Len(strongSignals)) >> >>
         ELSE << >>)
        \o (IF Count(strongSignals, IsRecent) > 0
            THEN << << "recent", "developments",
                       ToString(Count(strongSignals, IsRecent)), "signals" >> >>
            ELSE << >>)
        \o (IF Count(strongSignals, IsHighRelevance) > 0
            THEN << << "high", "relevance", "indicators",
                       ToString(Count(strongSignals, IsHighRelevance)), "signals" >> >>
            ELSE << >>)
        \o (IF Count(strongSignals, IsDirect) > 0
            THEN << << "direct", "business", "signals",
                       ToString(Count(strongSignals, IsDirect)) >> >>
            ELSE << >>)
  IN  IF Len(factors) > 0 THEN factors
      ELSE << << "single", "supporting", "signal", "available" >> >>

identifyConservativeAssumptions(strongSignals, allSignals) ==
  (IF Count(allSignals, IsWeak) > 0
   THEN << << ToString(Count(allSignals, IsWeak)), "weak", "signals", "not",
              "considered", "in", "primary", "hypothesis" >> >>
   ELSE << >>)
  \o (IF Count(strongSignals, IsOld) > 0
      THEN << << "some", "signals", "may", "be", "dated",
                 ToString(Count(strongSignals, IsOld)) >> >>
      ELSE << >>)
  \o (IF Count(strongSignals, IsIndirect) = Len(strongSignals)
      THEN << << "hypothesis", "based", "on", "indirect", "signals", "only" >> >>
      ELSE << >>)
  \o << << "hypothesis", "assumes", "business", "relevance", "without",
           "guaranteeing", "specific", "interest" >> >>

createEvidenceBasedHypothesis(strongSignals, allSignals) ==
  LET primarySignal == strongSignals[1]
      evident == SelectSeq(strongSignals, hasValidEvidence)
  IN  IF ~hasValidEvidence(primarySignal)
      THEN createConservativeHypothesis(
             << "primary", "signal", "lacks", "sufficient", "evidence" >>,
             allSignals, TRUE)
      ELSE IF Len(evident) = 0
      THEN createConservativeHypothesis(
             << "no", "valid", "supporting", "evidence", "found" >>,
             allSignals, TRUE)
      ELSE [primaryReason |-> formulatePrimaryReason(primarySignal),
            supportingEvidence |->
              [i \in 1..Len(evident) |->
                 getSignalTypeDescription(evident[i].type) \o evident[i].description],
            confidenceFactors |-> identifyConfidenceFactors(strongSignals),
            conservativeAssumptions |->
              identifyConservativeAssumptions(strongSignals, allSignals)]

\* A former that falls back only when no signal is strong.
formHypothesisWithoutTotal(weightedSignals) ==
  LET validSignals == SelectSeq(weightedSignals, IsUsableSignal)
      sortedSignals == SortByWeight(validSignals)
      strongSignals == SelectSeq(sortedSignals, IsStrong)
  IN  IF Len(weightedSignals) = 0
      THEN createConservativeHypothesis(
             << "no", "intent", "signals", "provided" >>, << >>, FALSE)
      ELSE IF Len(validSignals) < MIN_SIGNALS_FOR_HYPOTHESIS
      THEN createConservativeHypothesis(
             << "insufficient", "valid", "signals" >>, << >>, FALSE)
      ELSE IF Len(strongSignals) = 0
      THEN createConservativeHypothesis(
             << "weak", "signal", "strength" >>, sortedSignals, TRUE)
      ELSE createEvidenceBasedHypothesis(strongSignals, sortedSignals)

formHypothesis(weightedSignals) ==
  LET validSignals == SelectSeq(weightedSignals, IsUsableSignal)
      sortedSignals == SortByWeight(validSignals)
      totalWeight == Sum([i \in 1..Len(sortedSignals) |-> sortedSignals[i].weight])
      strongSignals == SelectSeq(sortedSignals, IsStrong)
  IN  IF Len(weightedSignals) = 0
      THEN createConservativeHypothesis(
             << "no", "intent", "signals", "provided" >>, << >>, FALSE)
      ELSE IF Len(validSignals) < MIN_SIGNALS_FOR_HYPOTHESIS
      THEN createConservativeHypothesis(
             << "insufficient", "valid", "signals" >>, << >>, FALSE)
      ELSE IF totalWeight < MIN_TOTAL_WEIGHT_THRESHOLD \/ Len(strongSignals) = 0
      THEN createConservativeHypothesis(
             << "weak", "signal", "strength" >>, sortedSignals, TRUE)
      ELSE createEvidenceBasedHypothesis(strongSignals, sortedSignals)

----------------------------------------------------------------------------
(* Two runs of the pipeline with its own components on the same signals. *)
(* The clock (new Date()) is read inside the run, so each run has its    *)
(* own reading; the second reading is never before the first.            *)

NSignals == 2

SignalTypes == {"funding_event", "company_growth"}
Descriptions == { << "raised", "funding", "round" >>,
                  << "market", "growth", "reported" >> }
Relevances == {900, 500}
Timestamps == {0, 27}
Clock == {0, 27, 54, 120}

IntentSignals ==
  [type : SignalTypes, description : Descriptions,
   relevanceScore : Relevances, timestamp : Timestamps]

\* validateTimestamps: no FUTURE_TIMESTAMP error is pushed.
validateTimestamps(intentSignals, now) ==
  \A i \in 1..Len(intentSignals) : ~(intentSignals[i].timestamp > now)

\* validateInput(...).isValid for signals whose fields are all present.
validateInput(intentSignals, now) ==
  /\ Len(intentSignals) >= 2
  /\ validateTimestamps(intentSignals, now)

\* What one run decides when no component throws and no draft is revised.
processOnce(intentSignals, now) ==
  IF ~validateInput(intentSignals, now)
  THEN [kind |-> "failure", code |-> createValidationError.code,
        step |-> createValidationError.step, intentConfidence |-> "none"]
  ELSE LET weightedSignals == interpretSignals(intentSignals, now)
           hypothesis == formHypothesis(weightedSignals)
       IN  [kind |-> "success", code |-> "none", step |-> "none",
            intentConfidence |-> scoreConfidence(hypothesis, weightedSignals)]

RepeatInit ==
  /\ Idle
  /\ \E signals \in [1..NSignals -> IntentSignals] :
       args = [fn |-> "validateDeterministicExecution", intentSignals |-> signals]
  /\ result = NoCall

\* const result1 = await this.processOutreachRequest(prospectData, intentSignals)
FirstRun ==
  /\ result = NoCall
  /\ \E now \in Clock :
       result' = [fn |-> args.fn, now |-> now,
                  runs |-> << processOnce(args.intentSignals, now) >>]
  /\ UNCHANGED << args, pipeline >>

\* const result2 = await this.processOutreachRequest(prospectData, intentSignals)
SecondRun ==
  /\ result # NoCall
  /\ Len(result.runs) = 1
  /\ \E now \in Clock :
       /\ now >= result.now
       /\ result' = [result EXCEPT !.now = now,
                       !.runs = Append(@, processOnce(args.intentSignals, now))]
  /\ UNCHANGED << args, pipeline >>

RepeatNext == FirstRun \/ SecondRun

RepeatSpec == RepeatInit /\ [][RepeatNext]_vars

\* C13 (as stated): processing identical (prospect, signals) inputs twice
\* yields the same kind of result, the same code and step on failure, and
\* the same confidence on success.
C13_Deterministic ==
  (result # NoCall /\ Len(result.runs) = 2) => result.runs[1] = result.runs[2]

\* Both runs of one input are done and both succeeded.
C13_RanTwice ==
  /\ result # NoCall
  /\ Len(result.runs) = 2
  /\ result.runs[1].kind = "success"
  /\ result.runs[2].kind = "success"

----------------------------------------------------------------------------
(* StrategySelector *)

NoStrategy == [type |-> "none", callToActionLevel |-> "none"]

createDirectValueAlignmentStrategy ==
  [type |-> "direct_value_alignment", callToActionLevel |-> "direct"]

createInsightLedObservationStrategy ==
  [type |-> "insight_led_observation", callToActionLevel |-> "soft"]

createSoftCuriosityStrategy ==
  [type |-> "soft_curiosity", callToActionLevel |-> "none"]

\* A selector whose Medium case falls through to the Low strategy.
selectStrategyFallThrough(confidenceLevel) ==
  CASE confidenceLevel = "High" -> createDirectValueAlignmentStrategy
    [] confidenceLevel = "Medium" -> createSoftCuriosityStrategy
    [] confidenceLevel = "Low" -> createSoftCuriosityStrategy
    [] OTHER -> [type |-> "throws", callToActionLevel |-> "throws"]

\* selectStrategy(confidenceLevel); the default case throws.
selectStrategy(confidenceLevel) ==
  CASE confidenceLevel = "High" -> createDirectValueAlignmentStrategy
    [] confidenceLevel = "Medium" -> createInsightLedObservationStrategy
    [] confidenceLevel = "Low" -> createSoftCuriosityStrategy
    [] OTHER -> [type |-> "throws", callToActionLevel |-> "throws"]

----------------------------------------------------------------------------
(* The scorer and the selector called on their own: a hypothesis and a   *)
(* list of weighted signals are classified, and a strategy is selected   *)
(* for the level.                                                        *)

MaxWeighted == 3

Weights == {0, 200000, 900000}
Freshnesses == {100, 900}

WeightedSignals ==
  [type : {"funding_event", "industry_trend"},
   description : { << "raised", "funding", "round" >> },
   relevanceScore : {900}, timestamp : {0},
   weight : Weights, freshnessScore : Freshnesses]

\* A hypothesis formed from one strong funding signal.
EvidenceHypothesis ==
  formHypothesis(<< [type |-> "funding_event",
                     description |-> << "raised", "funding", "round" >>,
                     relevanceScore |-> 900, timestamp |-> 0,
                     weight |-> 900000, freshnessScore |-> 900] >>)

Hypotheses ==
  { EvidenceHypothesis,
    \* the conservative fallback of formHypothesis
    formHypothesis(<< >>),
    \* conservative phrasing in the caveats only
    [EvidenceHypothesis EXCEPT
       !.conservativeAssumptions = << << "weak", "signal", "strength" >> >> \o @],
    \* risky wording in the evidence
    [EvidenceHypothesis EXCEPT
       !.supportingEvidence = << << "urgent", "funding", "round" >> >>] }

ClassifyInit ==
  /\ Idle
  /\ \E hypothesis \in Hypotheses, n \in 0..MaxWeighted :
       \E signals \in [1..n -> WeightedSignals] :
         args = [fn |-> "scoreConfidence", hypothesis |-> hypothesis,
                 signals |-> signals]
  /\ result = NoCall

\* confidenceScorer.scoreConfidence(hypothesis, weightedSignals)
Classify ==
  /\ result = NoCall
  /\ result' = [fn |-> args.fn,
                confidenceLevel |-> scoreConfidence(args.hypothesis, args.signals),
                strategy |-> NoStrategy]
  /\ UNCHANGED << args, pipeline >>

\* strategySelector.selectStrategy(confidenceLevel)
SelectStrategy ==
  /\ result # NoCall
  /\ result.strategy = NoStrategy
  /\ result' = [result EXCEPT !.strategy = selectStrategy(result.confidenceLevel)]
  /\ UNCHANGED << args, pipeline >>

ClassifyNext == Classify \/ SelectStrategy

ClassifySpec == ClassifyInit /\ [][ClassifyNext]_vars

Classified == result # NoCall /\ args.fn = "scoreConfidence"

HasZeroWeight(signals) == \E i \in 1..Len(signals) : signals[i].weight = 0

\* C14 (as stated): scoreConfidence never returns High when any signal in
\* its input has weight 0.
C14_NoHighWithZeroWeight ==
  (Classified /\ HasZeroWeight(args.signals)) => result.confidenceLevel # "High"

\* A list with a zero-weight signal among others has been classified.
C14_ZeroWeightClassified ==
  /\ Classified
  /\ HasZeroWeight(args.signals)
  /\ Len(args.signals) > 1

\* C15: a hypothesis whose reason or caveats carry the conservative
\* phrasing is classified Low, whatever the signals are.
C15_ConservativeIsLow ==
  (Classified /\ hasConservativeIndicators(args.hypothesis))
    => result.confidenceLevel = "Low"

\* A hypothesis with conservative caveats was classified together with
\* signals that are by themselves enough for High.
C15_ConservativeWithStrongSignals ==
  /\ Classified
  /\ hasConservativeIndicators(args.hypothesis)
  /\ Len(args.signals) > 0
  /\ ~HasZeroWeight(args.signals)
  /\ meetsHighConfidenceCriteria(calculateSignalMetrics(args.signals))

\* C20: High selects direct value alignment with a direct call to action,
\* Medium the insight-led observation with a soft one, Low soft curiosity
\* with none; every level selects a strategy.
C20_StrategyMapping ==
  (Classified /\ result.strategy # NoStrategy) =>
    /\ result.confidenceLevel \in {"High", "Medium", "Low"}
    /\ result.confidenceLevel = "High" =>
         result.strategy = [type |-> "direct_value_alignment",
                            callToActionLevel |-> "direct"]
    /\ result.confidenceLevel = "Medium" =>
         result.strategy = [type |-> "insight_led_observation",
                            callToActionLevel |-> "soft"]
    /\ result.confidenceLevel = "Low" =>
         result.strategy = [type |-> "soft_curiosity",
                            callToActionLevel |-> "none"]

\* A strategy has been selected for a Medium classification.
C20_StrategySelected ==
  /\ Classified
  /\ result.strategy # NoStrategy
  /\ result.confidenceLevel = "Medium"

----------------------------------------------------------------------------
(* OutputAssembler: the reasoning summary.  A reasoning text is a list   *)
(* of sentences, each a list of words in lower case, and a flag saying   *)
(* whether the last sentence has its full stop; the string is the words  *)
(* joined by blanks, with a stop after each sentence.                    *)

\* The characters of the words the texts are made of.
CharCodes(word) ==
  CASE word = "low" -> << 108, 111, 119 >>
    [] word = "confidence" -> << 99, 111, 110, 102, 105, 100, 101, 110, 99, 101 >>
    [] word = "assessment" -> << 97, 115, 115, 101, 115, 115, 109, 101, 110, 116 >>
    [] word = "based" -> << 98, 97, 115, 101, 100 >>
    [] word = "on" -> << 111, 110 >>
    [] word = "available" -> << 97, 118, 97, 105, 108, 97, 98, 108, 101 >>
    [] word = "signals" -> << 115, 105, 103, 110, 97, 108, 115 >>
    [] word = "timing" -> << 116, 105, 109, 105, 110, 103 >>
    [] word = "may" -> << 109, 97, 121 >>
    [] word = "be" -> << 98, 101 >>
    [] word = "appropriate" -> << 97, 112, 112, 114, 111, 112, 114, 105, 97, 116, 101 >>
    [] word = "for" -> << 102, 111, 114 >>
    [] word = "general" -> << 103, 101, 110, 101, 114, 97, 108 >>
    [] word = "business" -> << 98, 117, 115, 105, 110, 101, 115, 115 >>
    [] word = "discussion" -> << 100, 105, 115, 99, 117, 115, 115, 105, 111, 110 >>
    [] word = "evidence" -> << 101, 118, 105, 100, 101, 110, 99, 101 >>
    [] word = "is" -> << 105, 115 >>
    [] word = "thin" -> << 116, 104, 105, 110 >>
    [] word = "the" -> << 116, 104, 101 >>
    [] word = "algorithm" -> << 97, 108, 103, 111, 114, 105, 116, 104, 109 >>
    [] word = "found" -> << 102, 111, 117, 110, 100 >>
    [] word = "it" -> << 105, 116 >>
    [] word = "workflow" -> << 119, 111, 114, 107, 102, 108, 111, 119 >>
    [] word = "ran" -> << 114, 97, 110 >>
    [] word = "debug:" -> << 100, 101, 98, 117, 103, 58 >>
    [] word = "raw" -> << 114, 97, 119 >>
    [] word = "trace" -> << 116, 114, 97, 99, 101 >>
    [] word = "ok" -> << 111, 107 >>
    [] word = "though" -> << 116, 104, 111, 117, 103, 104 >>
    [] word = "certainty" -> << 99, 101, 114, 116, 97, 105, 110, 116, 121 >>
    [] word = "levels" -> << 108, 101, 118, 101, 108, 115 >>
    [] word = "vary" -> << 118, 97, 114, 121 >>
    [] word = "while" -> << 119, 104, 105, 108, 101 >>
    [] word = "acknowledging" -> << 97, 99, 107, 110, 111, 119, 108, 101, 100, 103, 105, 110, 103 >>
    [] word = "potential" -> << 112, 111, 116, 101, 110, 116, 105, 97, 108 >>
    [] word = "uncertainties" -> << 117, 110, 99, 101, 114, 116, 97, 105, 110, 116, 105, 101, 115 >>
    [] word = "outcomes" -> << 111, 117, 116, 99, 111, 109, 101, 115 >>
    [] word = "cannot" -> << 99, 97, 110, 110, 111, 116 >>
    [] word = "guaranteed" -> << 103, 117, 97, 114, 97, 110, 116, 101, 101, 100 >>
    [] word = "recognizing" -> << 114, 101, 99, 111, 103, 110, 105, 122, 105, 110, 103 >>
    [] word = "limitations" -> << 108, 105, 109, 105, 116, 97, 116, 105, 111, 110, 115 >>
    [] word = "in" -> << 105, 110 >>
    [] word = "information" -> << 105, 110, 102, 111, 114, 109, 97, 116, 105, 111, 110 >>
    [] word = "complete" -> << 99, 111, 109, 112, 108, 101, 116, 101 >>
    [] word = "not" -> << 110, 111, 116 >>
    [] word = "possible" -> << 112, 111, 115, 115, 105, 98, 108, 101 >>

RECURSIVE SentencePieces(_, _)
\* The words of a sentence, each with the characters that follow it.
SentencePieces(words, end) ==
  IF Len(words) = 0 THEN << end >>
  ELSE IF Len(words) = 1 THEN << CharCodes(words[1]) \o end >>
  ELSE << CharCodes(words[1]) \o << 32 >> >> \o SentencePieces(Tail(words), end)

RECURSIVE StringOf(_, _)
\* The string of a text: its character codes, word by word.
StringOf(sentences, stop) ==
  IF Len(sentences) = 0 THEN << >>
  ELSE IF Len(sentences) = 1
       THEN SentencePieces(sentences[1], IF stop THEN << 46 >> ELSE << >>)
  ELSE SentencePieces(sentences[1], << 46, 32 >>) \o StringOf(Tail(sentences), stop)

\* str.length
Length(string) == Sum([i \in 1..Len(string) |-> Len(string[i])])

RECURSIVE HashFrom(_, _)
\* hash = ((hash << 5) - hash) + char; hash = hash & hash, on the two
\* 16-bit halves of the 32-bit value, for the characters of one word.
HashFrom(hash, codes) ==
  IF hash.lo >= 0 /\ Len(codes) = 0 THEN hash
  ELSE LET low == hash.lo * 31 + Head(codes)
       IN  HashFrom([hi |-> (hash.hi * 31 + low \div 65536) % 65536,
                     lo |-> low % 65536], Tail(codes))

RECURSIVE HashWords(_, _)
\* The loop of simpleHash over the whole string.
HashWords(hash, string) ==
  IF hash.lo >= 0 /\ Len(string) = 0 THEN hash
  ELSE HashWords(HashFrom(hash, Head(string)), Tail(string))

\* simpleHash(str): Math.abs of the signed 32-bit hash, in halves.
simpleHash(string) ==
  LET hash == HashWords([hi |-> 0, lo |-> 0], string)
  IN  IF hash.hi < 32768 THEN hash
      ELSE [hi |-> 65535 - hash.hi + (IF hash.lo = 0 THEN 1 ELSE 0),
            lo |-> (65536 - hash.lo) % 65536]

\* hash % n
HashMod(hash, n) == ((hash.hi % n) * (65536 % n) + hash.lo) % n

technicalTerms ==
  << << "workflow", "step" >>, << "signal", "interpretation" >>,
     << "hypothesis", "formation" >>, << "confidence", "scoring" >>,
     << "strategy", "selection" >>, << "authenticity", "filter" >>,
     << "processing", "pipeline" >>, << "algorithm" >>,
     << "weighted", "signal" >>, << "audit", "log" >>,
     << "validation", "result" >>, << "processing", "metadata" >> >>

internalMarkers ==
  { << "step", "1:" >>, << "step", "2:" >>, << "step", "3:" >>,
    << "step", "4:" >>, << "step", "5:" >>, << "step", "6:" >>,
    << "step", "7:" >>, << "internal", "note:" >>, << "processing:" >>,
    << "debug:" >>, << "chain-of-thought:" >>, << "reasoning", "chain:" >> }

uncertaintyPhrases ==
  << << "though", "certainty", "levels", "may", "vary" >>,
     << "while", "acknowledging", "potential", "uncertainties" >>,
     << "though", "outcomes", "cannot", "be", "guaranteed" >>,
     << "while", "recognizing", "limitations", "in", "available", "information" >>,
     << "though", "complete", "certainty", "is", "not", "possible" >> >>

summaries ==
  << << "based", "on", "available", "signals", "this", "approach", "was",
        "selected", "as", "most", "appropriate", "though", "certainty",
        "levels", "may", "vary" >>,
     << "the", "timing", "and", "relevance", "factors", "suggest", "this",
        "messaging", "strategy", "while", "acknowledging", "potential",
        "uncertainties" >>,
     << "analysis", "indicates", "this", "approach", "offers", "engagement",
        "potential", "though", "outcomes", "cannot", "be", "guaranteed" >>,
     << "current", "signals", "support", "this", "outreach", "methodology",
        "while", "recognizing", "limitations", "in", "available",
        "information" >>,
     << "available", "information", "points", "to", "this", "communication",
        "approach", "though", "complete", "certainty", "is", "not",
        "possible" >> >>

jargonTerms ==
  { "algorithm", "pipeline", "workflow", "metadata", "validation",
    "processing", "scoring", "weighting", "interpretation", "formation" }

\* The jargon terms a word contains: includes() looks inside words.
HasJargon(word) ==
  \/ word \in jargonTerms
  \/ word = "information"

RECURSIVE RemoveTerm(_, _)
\* concealed.replace(/\bterm\b/gi, ''): the term leaves a gap, written "".
RemoveTerm(words, term) ==
  IF Len(words) < Len(term) THEN words
  ELSE IF SubSeq(words, 1, Len(term)) = term
       THEN << "" >> \o RemoveTerm(SubSeq(words, Len(term) + 1, Len(words)), term)
       ELSE << Head(words) >> \o RemoveTerm(Tail(words), term)

RECURSIVE RemoveTerms(_, _)
RemoveTerms(words, terms) ==
  IF Len(terms) = 0 THEN words
  ELSE RemoveTerms(RemoveTerm(words, Head(terms)), Tail(terms))

\* The first place in a sentence where an internal marker starts, or 0.
MarkerAt(words) ==
  LET places == { j \in 1..Len(words) :
                    \E m \in internalMarkers :
                      /\ j + Len(m) - 1 <= Len(words)
                      /\ SubSeq(words, j, j + Len(m) - 1) = m }
  IN  IF places = { } THEN 0 ELSE CHOOSE j \in places : \A k \in places : j <= k

\* concealed.replace(/marker.*?(?=\n|$)/gi, '') on a text of one line:
\* everything from the first marker on is removed.
RemoveMarkers(text) ==
  LET marked == { i \in 1..Len(text.sentences) : MarkerAt(text.sentences[i]) > 0 }
  IN  IF marked = { } THEN text
      ELSE LET i == CHOOSE k \in marked : \A l \in marked : k <= l
               j == MarkerAt(text.sentences[i])
           IN  IF j = 1
               THEN [sentences |-> SubSeq(text.sentences, 1, i - 1), stop |-> TRUE]
               ELSE [sentences |-> SubSeq(text.sentences, 1, i - 1)
                                     \o << SubSeq(text.sentences[i], 1, j - 1) >>,
                     stop |-> FALSE]

IsWord(word) == word # ""

\* concealed.replace(/\s+/g, ' ').trim(): the gaps close.
Normalise(text) ==
  [text EXCEPT !.sentences = [i \in 1..Len(@) |-> SelectSeq(@[i], IsWord)]]

containsTechnicalJargon(text) ==
  \E i \in 1..Len(text.sentences) :
    \E j \in 1..Len(text.sentences[i]) : HasJargon(text.sentences[i][j])

\* The phrase goes before the final stop; its leading comma is not kept.
addUncertaintyAcknowledgment(text) ==
  LET hash == simpleHash(StringOf(text.sentences, text.stop))
      selectedPhrase == uncertaintyPhrases[HashMod(hash, Len(uncertaintyPhrases)) + 1]
      n == Len(text.sentences)
  IN  [sentences |-> [text.sentences EXCEPT ![n] = @ \o selectedPhrase],
       stop |-> TRUE]

IsSentence(words) == Len(words) > 0

\* summaries[hash % summaries.length] for the raw reasoning text.
GenericSummary(reasoning) ==
  LET hash == simpleHash(StringOf(reasoning.sentences, reasoning.stop))
  IN  [sentences |-> << summaries[HashMod(hash, Len(summaries)) + 1] >>,
       stop |-> TRUE]

concealInternalReasoning(reasoning) ==
  LET removed == [reasoning EXCEPT
                    !.sentences = [i \in 1..Len(@) |-> RemoveTerms(@[i], technicalTerms)]]
      cleaned == Normalise(RemoveMarkers(removed))
      concealed ==
        IF \E i \in 1..Len(cleaned.sentences) :
             Includes(cleaned.sentences[i], << "low", "confidence" >>)
        THEN addUncertaintyAcknowledgment(cleaned)
        ELSE cleaned
      sentences == SelectSeq(concealed.sentences, IsSentence)
  IN  IF \/ Length(StringOf(concealed.sentences, concealed.stop)) < 10
         \/ containsTechnicalJargon(concealed)
      THEN GenericSummary(reasoning)
      ELSE IF Len(sentences) > 2
      THEN [sentences |-> SubSeq(sentences, 1, 2), stop |-> TRUE]
      ELSE IF Len(sentences) > 0
      THEN [sentences |-> sentences, stop |-> TRUE]
      ELSE GenericSummary(reasoning)

suggestFollowUpTiming(confidence) ==
  CASE confidence = "High" -> "one_week"
    [] confidence = "Medium" -> "two_weeks"
    [] confidence = "Low" -> "one_month"
    [] OTHER -> "two_weeks"

----------------------------------------------------------------------------
(* The assembler called on its own with a confidence level and a raw     *)
(* reasoning text.                                                       *)

MaxSentences == 3

Sentences ==
  { << "low", "confidence", "assessment", "based", "on", "available", "signals" >>,
    << "timing", "may", "be", "appropriate", "for", "general", "business",
       "discussion" >>,
    << "evidence", "is", "thin" >>,
    << "the", "algorithm", "found", "it" >>,
    << "workflow", "ran" >>,
    << "debug:", "raw", "trace" >>,
    << "ok" >> }

ConfidenceLevels == {"High", "Medium", "Low"}

SummaryInit ==
  /\ Idle
  /\ \E confidence \in ConfidenceLevels, n \in 1..MaxSentences, stop \in BOOLEAN :
       \E sentences \in [1..n -> Sentences] :
         args = [fn |-> "assembleOutput", confidence |-> confidence,
                 reasoning |-> [sentences |-> sentences, stop |-> stop]]
  /\ result = NoCall

\* outputAssembler.assembleOutput(message, confidence, reasoning, ...):
\* the fields that depend on the confidence and the reasoning.
OutputAssembler_assembleOutput ==
  /\ result = NoCall
  /\ result' = [fn |-> args.fn,
                intentConfidence |-> args.confidence,
                reasoningSummary |-> concealInternalReasoning(args.reasoning),
                suggestedFollowUpTiming |-> suggestFollowUpTiming(args.confidence)]
  /\ UNCHANGED << args, pipeline >>

SummaryNext == OutputAssembler_assembleOutput

SummarySpec == SummaryInit /\ [][SummaryNext]_vars

Assembled == result # NoCall /\ args.fn = "assembleOutput"

\* The summary contains one of the configured uncertainty phrases.
HasQualifier(summary) ==
  \E i \in 1..Len(summary.sentences), k \in 1..Len(uncertaintyPhrases) :
    Includes(summary.sentences[i], uncertaintyPhrases[k])

\* C16 (as stated): when the confidence passed to assembleOutput is Low,
\* the reasoning summary of the output contains an uncertainty qualifier,
\* whatever the raw reasoning text is.
C16_LowSummaryQualified ==
  (Assembled /\ args.confidence = "Low") => HasQualifier(result.reasoningSummary)

\* A Low output was assembled from a text of more than two sentences that
\* speaks of low confidence.
C16_LowAssembled ==
  /\ Assembled
  /\ args.confidence = "Low"
  /\ Len(args.reasoning.sentences) > 2
  /\ \E i \in 1..Len(args.reasoning.sentences) :
       Includes(args.reasoning.sentences[i], << "low", "confidence" >>)

----------------------------------------------------------------------------
(* MessageGenerator.  A message is a list of lines, a line a list of     *)
(* words; a word is its letters (text) and the punctuation that follows  *)
(* it without a blank (mark).                                            *)

WORD_LIMIT == 120

\* The words of a phrase, none followed by punctuation.
Words(texts) == [i \in 1..Len(texts) |-> [text |-> texts[i], mark |-> ""]]

\* The phrase followed by a punctuation mark.
Marked(words, mark) ==
  IF Len(words) = 0 THEN << [text |-> "", mark |-> mark] >>
  ELSE [words EXCEPT ![Len(words)].mark = mark]

Texts(words) == [i \in 1..Len(words) |-> words[i].text]

BUZZWORDS ==
  << [phrase |-> << "synergy" >>,
      replacement |-> << "collaboration" >>],
     [phrase |-> << "leverage" >>,
      replacement |-> << "use" >>],
     [phrase |-> << "paradigm" >>,
      replacement |-> << "approach" >>],
     [phrase |-> << "disruptive" >>,
      replacement |-> << "impactful" >>],
     [phrase |-> << "innovative" >>,
      replacement |-> << "new" >>],
     [phrase |-> << "cutting-edge" >>,
      replacement |-> << "advanced" >>],
     [phrase |-> << "revolutionary" >>,
      replacement |-> << "significant" >>],
     [phrase |-> << "game-changer" >>,
      replacement |-> << "improvement" >>],
     [phrase |-> << "best-in-class" >>,
      replacement |-> << "high-quality" >>],
     [phrase |-> << "world-class" >>,
      replacement |-> << "excellent" >>],
     [phrase |-> << "industry-leading" >>,
      replacement |-> << "established" >>],
     [phrase |-> << "next-generation" >>,
      replacement |-> << "modern" >>],
     [phrase |-> << "state-of-the-art" >>,
      replacement |-> << "current" >>],
     [phrase |-> << "turnkey" >>,
      replacement |-> << "complete" >>],
     [phrase |-> << "seamless" >>,
      replacement |-> << "smooth" >>],
     [phrase |-> << "robust" >>,
      replacement |-> << "reliable" >>],
     [phrase |-> << "scalable" >>,
      replacement |-> << "flexible" >>],
     [phrase |-> << "enterprise-grade" >>,
      replacement |-> << "professional" >>],
     [phrase |-> << "mission-critical" >>,
      replacement |-> << "important" >>],
     [phrase |-> << "value-add" >>,
      replacement |-> << "benefit" >>],
     [phrase |-> << "low-hanging", "fruit" >>,
      replacement |-> << "easy", "wins" >>],
     [phrase |-> << "circle", "back" >>,
      replacement |-> << "follow", "up" >>],
     [phrase |-> << "touch", "base" >>,
      replacement |-> << "connect" >>],
     [phrase |-> << "move", "the", "needle" >>,
      replacement |-> << "make", "progress" >>],
     [phrase |-> << "boil", "the", "ocean" >>,
      replacement |-> << "tackle", "everything" >>],
     [phrase |-> << "think", "outside", "the", "box" >>,
      replacement |-> << "be", "creative" >>] >>

SALES_CLICHES ==
  << [phrase |-> << "i", "hope", "this", "email", "finds", "you", "well" >>,
      replacement |-> << >>],
     [phrase |-> << "i", "wanted", "to", "reach", "out" >>,
      replacement |-> << >>],
     [phrase |-> << "i", "hope", "you", "don't", "mind", "me", "reaching", "out" >>,
      replacement |-> << >>],
     [phrase |-> << "i", "came", "across", "your", "profile" >>,
      replacement |-> << >>],
     [phrase |-> << "i", "thought", "you", "might", "be", "interested" >>,
      replacement |-> << >>],
     [phrase |-> << "quick", "question", "for", "you" >>,
      replacement |-> << >>],
     [phrase |-> << "i'd", "love", "to", "pick", "your", "brain" >>,
      replacement |-> << "i'd", "appreciate", "your", "perspective" >>],
     [phrase |-> << "do", "you", "have", "15", "minutes" >>,
      replacement |-> << "would", "you", "have", "time", "for", "a", "brief", "conversation" >>],
     [phrase |-> << "are", "you", "the", "right", "person", "to", "speak", "with" >>,
      replacement |-> << >>],
     [phrase |-> << "i", "don't", "want", "to", "take", "up", "too", "much", "of", "your", "time" >>,
      replacement |-> << >>] >>

\* `Hi ${name.split(' ')[0]},`
generateGreeting(prospectData) ==
  Words(<< "hi" >>) \o Marked(Words(<< Head(prospectData.contactDetails.name) >>), ",")

generateRelevanceStatement(hypothesis, prospectData) ==
  LET primaryReason == hypothesis.primaryReason
      companyName == Words(prospectData.companyContext.name)
      role == Words(prospectData.role)
  IN  IF Includes(primaryReason, << "funding" >>) \/ Includes(primaryReason, << "growth" >>)
      THEN Words(<< "i", "noticed" >>) \o Marked(companyName, "'s")
             \o Words(<< "recent", "growth", "momentum", "and", "thought", "it",
                         "might", "be", "relevant", "to", "your", "role", "as" >>)
             \o Marked(role, ".")
      ELSE IF Includes(primaryReason, << "technology" >>)
                \/ Includes(primaryReason, << "adoption" >>)
      THEN Words(<< "given" >>) \o Marked(companyName, "'s")
             \o Marked(Words(<< "technology", "initiatives" >>), ",")
             \o Words(<< "i", "thought", "this", "might", "be", "timely", "for",
                         "your", "work", "in" >>)
             \o Marked(role, ".")
      ELSE IF Includes(primaryReason, << "job" >>) \/ Includes(primaryReason, << "role" >>)
      THEN Words(<< "congratulations", "on", "your", "role", "at" >>)
             \o Marked(companyName, ".")
             \o Marked(Words(<< "i", "thought", "this", "might", "be", "relevant",
                                "as", "you", "settle", "into", "your", "position" >>), ".")
      ELSE Words(<< "i", "came", "across" >>) \o companyName
             \o Words(<< "and", "thought", "this", "might", "be", "relevant", "to",
                         "your", "work", "as" >>)
             \o Marked(role, ".")

generateValueProposition(strategy, hypothesis, prospectData) ==
  LET companyName == Words(prospectData.companyContext.name)
      industry == Words(prospectData.companyContext.industry)
  IN  CASE strategy.type = "direct_value_alignment" ->
             Words(<< "based", "on" >>) \o Marked(Words(hypothesis.primaryReason), ",")
               \o Words(<< "there", "may", "be", "alignment", "with", "what",
                           "we're", "seeing", "other" >>)
               \o industry \o Marked(Words(<< "companies", "consider" >>), ".")
        [] strategy.type = "insight_led_observation" ->
             Words(<< "i've", "observed", "similar", "patterns", "in", "the" >>)
               \o industry \o Marked(Words(<< "space" >>), ",")
               \o Words(<< "and", "companies", "like" >>) \o companyName
               \o Marked(Words(<< "sometimes", "find", "value", "in", "exploring",
                                  "this", "area" >>), ".")
        [] strategy.type = "soft_curiosity" ->
             Words(<< "i'm", "curious", "about", "how" >>) \o companyName
               \o Marked(Words(<< "approaches", "this", "area" >>), ",")
               \o Marked(Words(<< "as", "it", "might", "be", "relevant", "given",
                                  "your", "current", "context" >>), ",")
               \o Marked(Words(<< "though", "i", "recognize", "every", "situation",
                                  "is", "unique" >>), ".")
        [] OTHER ->
             Words(<< "this", "might", "be", "worth", "exploring", "given" >>)
               \o Marked(companyName, "'s")
               \o Marked(Words(<< "current", "situation" >>), ",")
               \o Marked(Words(<< "though", "i", "understand", "priorities", "can",
                                  "vary" >>), ".")

generateCallToAction(strategy) ==
  CASE strategy.callToActionLevel = "none" ->
         Marked(Words(<< "would", "this", "be", "worth", "a", "brief",
                         "conversation" >>), ",")
           \o Marked(Words(<< "if", "the", "timing", "seems", "right" >>), "?")
    [] strategy.callToActionLevel = "soft" ->
         Marked(Words(<< "if", "this", "resonates" >>), ",")
           \o Marked(Words(<< "i'd", "be", "happy", "to", "share", "some",
                              "insights" >>), ",")
           \o Marked(Words(<< "though", "no", "pressure", "if", "the", "timing",
                              "isn't", "right" >>), ".")
    [] strategy.callToActionLevel = "direct" ->
         Marked(Words(<< "would", "you", "be", "open", "to", "a", "brief", "call",
                         "this", "week", "to", "discuss", "how", "this", "might",
                         "apply", "to", "your", "situation" >>), "?")
    [] OTHER ->
         Marked(Words(<< "let", "me", "know", "if", "this", "would", "be", "worth",
                         "exploring", "further" >>), ",")
           \o Marked(Words(<< "when", "the", "timing", "works", "for", "you" >>), ".")

generateClosing == Words(<< "best", "regards" >>)

\* buildMessageComponents and assembleMessage: the nine lines of a draft.
assembleMessage(strategy, hypothesis, prospectData) ==
  << generateGreeting(prospectData), << >>,
     generateRelevanceStatement(hypothesis, prospectData), << >>,
     generateValueProposition(strategy, hypothesis, prospectData), << >>,
     generateCallToAction(strategy), << >>,
     generateClosing >>

IsToken(word) == Len(word.text) + Len(word.mark) > 0

\* message.split(/\s+/).filter(word => word.length > 0)
SplitWords(message) == SelectSeq(Join(message), IsToken)

countWords(message) == Len(SplitWords(message))

EndsSentence(word) == word.mark \in {".", "?", "!"}

\* The length of the first k words joined by blanks.
JoinedLength(words, k) ==
  IF k = 0 THEN 0
  ELSE Sum([i \in 1..k |-> Len(words[i].text) + Len(words[i].mark)]) + k - 1

enforceWordLimit(message) ==
  LET words == SplitWords(message)
      trimmedWords == SubSeq(words, 1, WORD_LIMIT)
      ends == { k \in 1..WORD_LIMIT : EndsSentence(trimmedWords[k]) }
      last == CHOOSE k \in ends : \A l \in ends : l <= k
      \* lastSentenceEnd > trimmedMessage.length * 0.8
      cut == /\ ends # { }
             /\ 5 * (JoinedLength(trimmedWords, last) - 1)
                  > 4 * JoinedLength(trimmedWords, WORD_LIMIT)
  IN  IF Len(words) <= WORD_LIMIT THEN message
      ELSE IF cut THEN << SubSeq(trimmedWords, 1, last) >>
      ELSE << trimmedWords >>

\* The places of a line where the phrase stands, word for word; only its
\* last word may be followed by punctuation.
Matches(line, phrase) ==
  { i \in 1..(Len(line) - Len(phrase) + 1) :
      /\ \A j \in 1..Len(phrase) : line[i + j - 1].text = phrase[j]
      /\ \A j \in 1..(Len(phrase) - 1) : line[i + j - 1].mark = "" }

RECURSIVE ReplaceInLine(_, _)
\* line.replace(regex, replacement) with the g flag: every occurrence,
\* from the left.
ReplaceInLine(line, entry) ==
  IF Matches(line, entry.phrase) = { } THEN line
  ELSE LET i == CHOOSE k \in Matches(line, entry.phrase) :
                  \A l \in Matches(line, entry.phrase) : k <= l
           n == Len(entry.phrase)
           mark == line[i + n - 1].mark
           replaced == IF Len(entry.replacement) = 0 /\ mark = "" THEN << >>
                       ELSE Marked(Words(entry.replacement), mark)
       IN  SubSeq(line, 1, i - 1) \o replaced
             \o ReplaceInLine(SubSeq(line, i + n, Len(line)), entry)

RECURSIVE ReplaceAll(_, _)
ReplaceAll(message, entries) ==
  IF Len(entries) = 0 THEN message
  ELSE ReplaceAll([l \in 1..Len(message) |-> ReplaceInLine(message[l], Head(entries))],
                  Tail(entries))

removeBuzzwordsAndCliches(message) ==
  ReplaceAll(ReplaceAll(message, BUZZWORDS), SALES_CLICHES)

generateMessage(strategy, hypothesis, prospectData) ==
  removeBuzzwordsAndCliches(
    enforceWordLimit(assembleMessage(strategy, hypothesis, prospectData)))

----------------------------------------------------------------------------
(* OutputAssembler: the two alternative drafts.                          *)

\* getAlternativeStrategies: the type and the call-to-action level of the
\* original; only the tone and the focus texts differ.
getAlternativeStrategies(originalStrategy) ==
  << [type |-> originalStrategy.type,
      callToActionLevel |-> originalStrategy.callToActionLevel,
      variant |-> "variant1"],
     [type |-> originalStrategy.type,
      callToActionLevel |-> originalStrategy.callToActionLevel,
      variant |-> "variant2"] >>

distinguishingPhrase(approach) ==
  IF approach = "conversational"
  THEN Marked(Words(<< "i", "thought", "this", "might", "resonate", "with",
                       "your", "current", "priorities" >>), ".")
  ELSE Marked(Words(<< "the", "timing", "seems", "particularly", "relevant",
                       "given", "current", "market", "conditions" >>), ".")

\* part.trim() is not empty.
HasText(lines) == \E l \in 1..Len(lines) : Len(lines[l]) > 0

\* [greeting, modifiedBody, closing].filter(part => part.trim()).join('\n\n')
JoinParts(parts) ==
  LET kept == SelectSeq(parts, HasText)
  IN  Join([k \in 1..Len(kept) |->
              IF k = 1 THEN kept[k] ELSE << << >> >> \o kept[k]])

\* The element with one phrase for both approaches.
addDistinguishingElementOneWay(message, approach) ==
  LET lines == message
      n == Len(lines)
      greeting == IF Len(lines[1]) > 0 THEN << lines[1] >>
                  ELSE << Marked(Words(<< "hi" >>), ",") >>
      body == SubSeq(lines, 2, n - 2)
      closing == IF HasText(SubSeq(lines, IF n > 2 THEN n - 1 ELSE 1, n)) \/ n > 1
                 THEN SubSeq(lines, IF n > 2 THEN n - 1 ELSE 1, n)
                 ELSE << Words(<< "best", "regards" >>) >>
      modifiedBody == IF HasText(body) \/ Len(body) > 1
                      THEN body \o << << >>, distinguishingPhrase("conversational") >>
                      ELSE << distinguishingPhrase("conversational") >>
  IN  JoinParts(<< greeting, modifiedBody, closing >>)

addDistinguishingElement(message, approach) ==
  LET lines == message
      n == Len(lines)
      \* lines[0] || 'Hi,'
      greeting == IF Len(lines[1]) > 0 THEN << lines[1] >>
                  ELSE << Marked(Words(<< "hi" >>), ",") >>
      \* lines.slice(1, -2)
      body == SubSeq(lines, 2, n - 2)
      \* lines.slice(-2).join('\n') || 'Best regards'
      closing == IF HasText(SubSeq(lines, IF n > 2 THEN n - 1 ELSE 1, n)) \/ n > 1
                 THEN SubSeq(lines, IF n > 2 THEN n - 1 ELSE 1, n)
                 ELSE << Words(<< "best", "regards" >>) >>
      modifiedBody == IF HasText(body) \/ Len(body) > 1
                      THEN body \o << << >>, distinguishingPhrase(approach) >>
                      ELSE << distinguishingPhrase(approach) >>
  IN  JoinParts(<< greeting, modifiedBody, closing >>)

generateAlternativeMessages(originalStrategy, hypothesis, prospectData) ==
  LET alternativeStrategies == getAlternativeStrategies(originalStrategy)
      alternative1 == generateMessage(alternativeStrategies[1], hypothesis, prospectData)
      alternative2 == generateMessage(alternativeStrategies[2], hypothesis, prospectData)
  IN  IF alternative1 = alternative2
      THEN << addDistinguishingElement(alternative1, "conversational"),
              addDistinguishingElement(alternative2, "analytical") >>
      ELSE << alternative1, alternative2 >>

----------------------------------------------------------------------------
(* Drafting on its own: the message of a request is drafted, the two     *)
(* alternatives are generated and the output carries the three.          *)

MaxRoleWords == 62

Names == { << "ana", "lee" >> }
CompanyNames == { << "acme" >>, << "your", "profile" >> }
Industries == { << "software" >>, << "robust", "logistics" >> }

\* A job title of k words.
Role(k) == [i \in 1..k |-> IF i % 2 = 1 THEN "senior" ELSE "adviser"]

DraftSignals ==
  [type : {"funding_event", "technology_adoption", "industry_trend"},
   description : { << "raised", "funding", "round" >> },
   relevanceScore : Relevances, timestamp : {27}]

DraftInit ==
  /\ Idle
  /\ \E signals \in [1..2 -> DraftSignals], name \in Names,
        company \in CompanyNames, industry \in Industries, k \in 1..MaxRoleWords :
       LET weightedSignals == interpretSignals(signals, 27)
           hypothesis == formHypothesis(weightedSignals)
           confidence == scoreConfidence(hypothesis, weightedSignals)
       IN  args = [fn |-> "generateMessage",
                   strategy |-> selectStrategy(confidence),
                   hypothesis |-> hypothesis,
                   prospectData |-> [contactDetails |-> [name |-> name],
                                     companyContext |-> [name |-> company,
                                                         industry |-> industry],
                                     role |-> Role(k)]]
  /\ result = NoCall

NoDrafts == << >>

NoOutput == [outreachMessage |-> << >>, alternativeMessages |-> << >>]

\* messageGenerator.generateMessage(strategy, hypothesis, prospectData);
\* a re-draft is the same call with the same arguments.
MessageGenerator_generateMessage ==
  /\ result = NoCall
  /\ args.fn = "generateMessage"
  /\ result' = [fn |-> args.fn,
                message |-> generateMessage(args.strategy, args.hypothesis,
                                            args.prospectData),
                alternatives |-> NoDrafts,
                output |-> NoOutput]
  /\ UNCHANGED << args, pipeline >>

\* outputAssembler.generateAlternativeMessages(strategy, hypothesis, ...)
OutputAssembler_generateAlternativeMessages ==
  /\ result # NoCall
  /\ args.fn = "generateMessage"
  /\ result.alternatives = NoDrafts
  /\ result' = [result EXCEPT
                  !.alternatives = generateAlternativeMessages(
                                     args.strategy, args.hypothesis, args.prospectData)]
  /\ UNCHANGED << args, pipeline >>

\* outputAssembler.assembleOutput(finalMessage, ..., alternatives, ...):
\* the message and the alternatives go into the output as they are.
AssembleDrafts ==
  /\ result # NoCall
  /\ args.fn = "generateMessage"
  /\ result.alternatives # NoDrafts
  /\ result.output = NoOutput
  /\ result' = [result EXCEPT
                  !.output = [outreachMessage |-> result.message,
                              alternativeMessages |-> result.alternatives]]
  /\ UNCHANGED << args, pipeline >>

DraftNext ==
  \/ MessageGenerator_generateMessage
  \/ OutputAssembler_generateAlternativeMessages
  \/ AssembleDrafts

DraftSpec == DraftInit /\ [][DraftNext]_vars

Drafted == result # NoCall /\ args.fn = "generateMessage"

DraftsAssembled == Drafted /\ result.output # NoOutput

C18_DraftsWithinWordLimit ==
  Drafted =>
    /\ countWords(result.message) <= WORD_LIMIT
    /\ \A a \in 1..Len(result.alternatives) :
         countWords(result.alternatives[a]) <= WORD_LIMIT

\* Alternatives have been drafted for a first draft that is within the
\* limit.
C18_AlternativesDrafted ==
  /\ Drafted
  /\ result.alternatives # NoDrafts
  /\ countWords(result.message) <= WORD_LIMIT

----------------------------------------------------------------------------
(* The metadata an output shows: the executed steps and the audit        *)
(* entries after cleanProcessingMetadata.                                *)

\* The step names the orchestrator logs.
InternalSteps ==
  { WorkflowSteps[i] : i \in 1..NSteps }
    \cup { RevisionStep(n) : n \in 1..MAX_REVISION_ATTEMPTS }

\* C19 (as stated): in the metadata of an output no step name of the
\* orchestrator remains, neither in the workflow steps nor in the audit
\* entries.
C19_NoRawStepNames ==
  \A r \in Requests :
    outcome[r].kind = "output" =>
      /\ outcome[r].workflowSteps \cap InternalSteps = {}
      /\ \A e \in Entries(ResultLog(outcome[r])) : e.step \notin InternalSteps

\* An output returned after a draft was revised.
C19_OutputAfterRevision ==
  \E r \in Requests :
    /\ outcome[r].kind = "output"
    /\ \E e \in Entries(ResultLog(outcome[r])) : e.step = RevisionStep(1)

----------------------------------------------------------------------------
(* The scorer on longer lists: up to MaxScored signals of a few kinds.   *)
(* The scorer filters, counts, sums and takes maxima, so the order of a  *)
(* list does not matter to it and the lists are drawn in one order.      *)

MaxScored == 6

ScoredKinds ==
  << \* no weight: dropped by the filter of scoreConfidence
     [type |-> "funding_event", weight |-> 0, freshnessScore |-> 900,
      relevanceScore |-> 900],
     \* weak and stale
     [type |-> "industry_trend", weight |-> 200000, freshnessScore |-> 50,
      relevanceScore |-> 500],
     \* just strong, stale
     [type |-> "industry_trend", weight |-> 320000, freshnessScore |-> 50,
      relevanceScore |-> 500],
     \* strong, stale
     [type |-> "funding_event", weight |-> 700000, freshnessScore |-> 50,
      relevanceScore |-> 900],
     \* strong, fresh, indirect, under the thresholds for indirect signals
     [type |-> "industry_trend", weight |-> 750000, freshnessScore |-> 650,
      relevanceScore |-> 800],
     \* strong, fresh, indirect
     [type |-> "industry_trend", weight |-> 900000, freshnessScore |-> 900,
      relevanceScore |-> 900],
     \* strong, fresh, direct
     [type |-> "funding_event", weight |-> 900000, freshnessScore |-> 900,
      relevanceScore |-> 900],
     \* strong, fresh, direct, of low relevance
     [type |-> "funding_event", weight |-> 900000, freshnessScore |-> 900,
      relevanceScore |-> 500] >>

ScoredSignal(k) ==
  [type |-> ScoredKinds[k].type,
   description |-> << "raised", "funding", "round" >>,
   relevanceScore |-> ScoredKinds[k].relevanceScore, timestamp |-> 0,
   weight |-> ScoredKinds[k].weight,
   freshnessScore |-> ScoredKinds[k].freshnessScore]

ScoreInit ==
  /\ Idle
  /\ \E hypothesis \in { EvidenceHypothesis, formHypothesis(<< >>) },
        n \in 0..MaxScored :
       \E kinds \in [1..n -> 1..Len(ScoredKinds)] :
         /\ \A i \in 1..(n - 1) : kinds[i] <= kinds[i + 1]
         /\ args = [fn |-> "scoreConfidence", hypothesis |-> hypothesis,
                    signals |-> [i \in 1..n |-> ScoredSignal(kinds[i])]]
  /\ result = NoCall

ScoreSpec == ScoreInit /\ [][ClassifyNext]_vars

\* Rule 1 as the specification words it: no signals, or no valid one.
InvalidOrEmpty(signals) == Len(signals) = 0 \/ Count(signals, IsValidSignal) = 0

\* Rules 1 to 3 over the signals that were passed.
MatchedByRules1To3(hypothesis, signals) ==
  \/ InvalidOrEmpty(signals)
  \/ hasConservativeIndicators(hypothesis)
  \/ applySafetyPrioritization(hypothesis, signals) # "null"

\* Rule 4 as stated, over the signals that were passed.
StatedHighCriteria(signals) ==
  LET n == Len(signals)
      totalWeight == Sum([i \in 1..n |-> signals[i].weight])
      totalFreshness == Sum([i \in 1..n |-> signals[i].freshnessScore])
      totalRelevance == Sum([i \in 1..n |-> signals[i].relevanceScore])
  IN  /\ n >= 2
      /\ Count(signals, IsWeak) = 0
      /\ totalWeight >= 700000 * n
      /\ totalFreshness >= 600 * n
      /\ totalRelevance >= 700 * n
      /\ Count(signals, IsDirect) = 0 =>
           (totalWeight >= 800000 * n /\ totalFreshness >= 700 * n)

HasMinimalFreshness(signal) == signal.freshnessScore >= 100

\* Rule 5 as stated, over the signals that were passed.
StatedMediumCriteria(signals) ==
  LET n == Len(signals)
      totalWeight == Sum([i \in 1..n |-> signals[i].weight])
  IN  /\ n >= 1
      /\ totalWeight >= 300000 * n
      /\ Count(signals, IsWeak) < n
      /\ \/ totalWeight >= 350000 * n
         \/ Count(signals, HasMinimalFreshness) > 0
         \/ /\ Count(signals, IsWeak) * 10 > 7 * n
            /\ \E i \in 1..n : signals[i].weight >= 300000

\* C21 (as stated): past rules 1 to 4 the level is Medium exactly when the
\* stated Medium criteria hold, and Low otherwise.
C21_MediumExactlyWhenCriteria ==
  (/\ Classified
   /\ ~MatchedByRules1To3(args.hypothesis, args.signals)
   /\ ~StatedHighCriteria(args.signals))
    => result.confidenceLevel =
         IF StatedMediumCriteria(args.signals) THEN "Medium" ELSE "Low"

\* Mostly weak, stale signals with one strong one have been classified.
C21_MostlyWeakStaleClassified ==
  /\ Classified
  /\ ~MatchedByRules1To3(args.hypothesis, args.signals)
  /\ ~HasZeroWeight(args.signals)
  /\ Count(args.signals, IsWeak) * 10 > 7 * Len(args.signals)
  /\ Count(args.signals, HasMinimalFreshness) = 0
  /\ StatedMediumCriteria(args.signals)

\* C22 (as stated): past rules 1 to 3 the level is High exactly when the
\* stated High criteria hold over the signals that were passed.
C22_HighExactlyWhenCriteria ==
  (Classified /\ ~MatchedByRules1To3(args.hypothesis, args.signals))
    => (result.confidenceLevel = "High" <=> StatedHighCriteria(args.signals))

\* Strong, fresh, indirect signals under the raised thresholds have been
\* classified.
C22_IndirectClassified ==
  /\ Classified
  /\ ~MatchedByRules1To3(args.hypothesis, args.signals)
  /\ Len(args.signals) >= 2
  /\ Count(args.signals, IsDirect) = 0
  /\ Count(args.signals, IsWeak) = 0
  /\ result.confidenceLevel # "High"

\* C23 (as stated): when more than 80% of the signals passed are weak, the
\* level is Low.
C23_MostlyWeakIsLow ==
  (/\ Classified
   /\ Count(args.signals, IsWeak) * 10 > 8 * Len(args.signals))
    => result.confidenceLevel = "Low"

\* More than 80% of the signals passed are weak, and one is strong.
C23_MostlyWeakClassified ==
  /\ Classified
  /\ Count(args.signals, IsWeak) * 10 > 8 * Len(args.signals)
  /\ Count(args.signals, IsWeak) < Len(args.signals)

----------------------------------------------------------------------------
(* The former called on its own with up to MaxFormed weighted signals.   *)

MaxFormed == 2

FormedSignals ==
  [type : {"funding_event", "company_growth"},
   description : { << "raised", "funding", "round" >>,
                   << "market", "growth", "reported" >>,
                   << "news" >> },
   relevanceScore : {900, 500}, timestamp : {0},
   weight : {5000, 250000, 400000, 900000}, freshnessScore : {900}]

FormInit ==
  /\ Idle
  /\ \E n \in 0..MaxFormed :
       \E signals \in [1..n -> FormedSignals] :
         args = [fn |-> "formHypothesis", signals |-> signals]
  /\ result = NoCall

\* hypothesisFormer.formHypothesis(weightedSignals)
FormHypothesis ==
  /\ result = NoCall
  /\ args.fn = "formHypothesis"
  /\ result' = [fn |-> args.fn, hypothesis |-> formHypothesis(args.signals),
                confidenceLevel |-> "none"]
  /\ UNCHANGED << args, pipeline >>

\* confidenceScorer.scoreConfidence(hypothesis, weightedSignals)
ScoreHypothesis ==
  /\ result # NoCall
  /\ args.fn = "formHypothesis"
  /\ result.confidenceLevel = "none"
  /\ result' = [result EXCEPT
                  !.confidenceLevel = scoreConfidence(result.hypothesis, args.signals)]
  /\ UNCHANGED << args, pipeline >>

FormNext == FormHypothesis \/ ScoreHypothesis

FormSpec == FormInit /\ [][FormNext]_vars

Formed == result # NoCall /\ args.fn = "formHypothesis"

\* The hypothesis is the conservative one as a whole: its reason, its
\* factors and its caveats are those of createConservativeHypothesis.
IsConservativeHypothesis(hypothesis) ==
  /\ hypothesis.primaryReason
       = << "timing", "may", "be", "appropriate", "for", "general", "business",
            "discussion" >>
  /\ hypothesis.confidenceFactors
       = << << "conservative", "approach", "due", "to", "limited", "evidence" >> >>
  /\ Len(hypothesis.conservativeAssumptions) = 3
  /\ hypothesis.conservativeAssumptions[2]
       = << "no", "specific", "intent", "can", "be", "confidently", "determined" >>

TotalWeight(signals) == Sum([i \in 1..Len(signals) |-> signals[i].weight])

\* C24 (as stated): the former falls back to the conservative hypothesis
\* whenever the weights of the strong signals alone sum to less than 0.5.
C24_FallbackOnStrongTotal ==
  (Formed /\ TotalWeight(SelectSeq(args.signals, IsStrong)) < 500000)
    => IsConservativeHypothesis(result.hypothesis)

\* C24 (amended): the former falls back to the conservative hypothesis
\* whenever the weights of all usable signals, weak ones included, sum to
\* less than 0.5, or no signal is strong.
C24_FallbackOnTotal ==
  (/\ Formed
   /\ \/ TotalWeight(SelectSeq(args.signals, IsUsableSignal)) < 500000
      \/ Len(SelectSeq(args.signals, IsStrong)) = 0)
    => IsConservativeHypothesis(result.hypothesis)

\* A strong signal whose weight is under 0.5 has been formed into a
\* hypothesis, alone or with an unusable one.
C24_StrongUnderTotalFormed ==
  /\ Formed
  /\ Len(SelectSeq(args.signals, IsStrong)) > 0
  /\ TotalWeight(SelectSeq(args.signals, IsUsableSignal)) < 500000

\* The signal the former takes as primary: the first of the heaviest.
PrimarySignal(signals) == SortByWeight(SelectSeq(signals, IsUsableSignal))[1]

\* C25 (as stated): when the top-weighted signal fails the evidence check
\* or the topical check, the former returns the conservative hypothesis as
\* a whole.
C25_FallbackIsWhole ==
  (/\ Formed
   /\ Len(SelectSeq(args.signals, IsUsableSignal)) > 0
   /\ \/ ~hasValidEvidence(PrimarySignal(args.signals))
      \/ ~isGroundedInEvidence(PrimarySignal(args.signals)))
    => IsConservativeHypothesis(result.hypothesis)

\* A hypothesis has been formed from a strong top signal that has evidence
\* and is off its topic.
C25_OffTopicFormed ==
  /\ Formed
  /\ Len(SelectSeq(args.signals, IsUsableSignal)) > 0
  /\ IsStrong(PrimarySignal(args.signals))
  /\ TotalWeight(SelectSeq(args.signals, IsUsableSignal)) >= 500000
  /\ hasValidEvidence(PrimarySignal(args.signals))
  /\ ~isGroundedInEvidence(PrimarySignal(args.signals))

----------------------------------------------------------------------------
(* The weight of one signal: calculateWeight on a grid of relevance and  *)
(* freshness scores, in steps of ScoreStep thousandths.                  *)

ScoreStep == 50

Scores == { k * ScoreStep : k \in 0..(1000 \div ScoreStep) }

WeighInit ==
  /\ Idle
  /\ \E relevanceScore \in Scores, freshnessScore \in Scores :
       args = [fn |-> "calculateWeight", relevanceScore |-> relevanceScore,
               freshnessScore |-> freshnessScore]
  /\ result = NoCall

\* this.calculateWeight(signal.relevanceScore, freshnessScore)
CalculateWeight ==
  /\ result = NoCall
  /\ args.fn = "calculateWeight"
  /\ result' = [fn |-> args.fn,
                conservativePenalty |->
                  applyConservativeInterpretation(args.relevanceScore,
                                                  args.freshnessScore),
                weight |-> calculateWeight(args.relevanceScore, args.freshnessScore)]
  /\ UNCHANGED << args, pipeline >>

WeighNext == CalculateWeight

WeighSpec == WeighInit /\ [][WeighNext]_vars

Weighed == result # NoCall /\ args.fn = "calculateWeight"

InBand(score) == score >= 300 /\ score <= 700

\* The penalty as the specification states it.
StatedPenalty(relevance, freshness) ==
  IF relevance < 300 /\ freshness < 300 THEN 600
  ELSE IF InBand(relevance) /\ InBand(freshness) THEN 800
  ELSE IF \/ relevance < 400 /\ InBand(freshness)
          \/ freshness < 400 /\ InBand(relevance)
       THEN 700
  ELSE 1000

\* C26 (as stated): the penalty is 0.6 when both scores are below 0.3, 0.7
\* when one is below 0.4 and the other in the band 0.3 to 0.7, 0.8 when
\* both are in the band, and 1.0 otherwise.
C26_PenaltyAsStated ==
  Weighed =>
    result.conservativePenalty = StatedPenalty(args.relevanceScore, args.freshnessScore)

\* A weight has been calculated for one score below 0.4 and the other
\* above 0.7.
C26_WeakAndStrongWeighed ==
  /\ Weighed
  /\ \/ args.relevanceScore < 400 /\ args.freshnessScore > 700
     \/ args.freshnessScore < 400 /\ args.relevanceScore > 700

----------------------------------------------------------------------------
(* The revision loop as a machine: Draft -> Evaluate -> Accept, Revise, *)
(* or Degrade                                                           *)

\* The ways of leaving the loop that hand currentMessage to the pipeline.
HandsDraftOn == {"return", "break", "bound"}

\* C27: while attempts remain, the loop gives a draft back without further
\* revision only if the verdict on it was acceptable and did not require
\* revision; a draft whose verdict was not acceptable is given back only at
\* the attempt limit; and every draft given back has been evaluated (the loop
\* is never left by its while condition, past the evaluation).
C27_AcceptReviseOrDegrade ==
  \A r \in Requests :
    LET e == exit[r] IN
    /\ (e.by \in HandsDraftOn /\ revisionAttempts[r] < MAX_REVISION_ATTEMPTS - 1) =>
          e.by = "return" /\ e.isAuthentic /\ ~e.revisionRequired
    /\ e.by = "return" => e.isAuthentic /\ ~e.revisionRequired
    /\ (e.by \in HandsDraftOn /\ ~e.isAuthentic) =>
          /\ revisionAttempts[r] = MAX_REVISION_ATTEMPTS - 1
          /\ drafts[r] = MAX_REVISION_ATTEMPTS
    /\ e.by # "bound"

\* A request whose first draft was sent back and whose second was accepted
\* has returned the second; it had an attempt left.
C27_AcceptedAfterOneRevision ==
  \E r \in Requests :
    /\ exit[r].by = "return"
    /\ revisionAttempts[r] = 1
    /\ PipelineReturned(r)
    /\ outcome[r].kind = "output"
    /\ outcome[r].message = 2

----------------------------------------------------------------------------
(* The metadata of a successful output *)

\* The entries of log (an array kept per request) show step s with status st.
Shows(log, s, st) ==
  \E q \in Requests : \E i \in 1..Len(log[q]) :
    log[q][i].step = s /\ log[q][i].status = st

\* The steps the entries of log show as started.
StartedSteps(log) == { e.step : e \in { x \in Entries(log) : x.status = "started" } }

\* C28: the metadata of a successful output records output assembly as an
\* executed step together with the steps before it: its workflow steps
\* include output assembly, and its audit entries hold a completed entry for
\* every step they show as started.
C28_MetadataIncludesOutputAssembly ==
  \A r \in Requests :
    (PipelineReturned(r) /\ outcome[r].kind = "output") =>
      /\ sanitizeWorkflowStep("output_assembly") \in outcome[r].workflowSteps
      /\ \A s \in StartedSteps(ResultLog(outcome[r])) :
            Shows(ResultLog(outcome[r]), s, "completed")

\* A request has returned an output whose metadata shows the steps before
\* output assembly as executed, and output assembly as started.
C28_OutputWithMetadata ==
  \E r \in Requests :
    /\ PipelineReturned(r)
    /\ outcome[r].kind = "output"
    /\ sanitizeWorkflowStep("authenticity_filtering") \in outcome[r].workflowSteps
    /\ Shows(ResultLog(outcome[r]), "alternative_generation", "completed")
    /\ Shows(ResultLog(outcome[r]), "output_assembly", "started")

----------------------------------------------------------------------------
(* The configured revision budget *)

\* Largest maxRevisionAttempts a caller configures.
MaxConfigured == 4

\* What a caller passes as AgentConfig, or as Partial<AgentConfig>: nothing
\* about the revision budget, or a budget.
AgentConfigs ==
  {NoConfig} \cup { [maxRevisionAttempts |-> n] : n \in 1..MaxConfigured }

\* {...a, ...b}
Spread(a, b) ==
  [k \in DOMAIN a \cup DOMAIN b |-> IF k \in DOMAIN b THEN b[k] ELSE a[k]]

\* No request is being processed: the caller awaits each of its requests.
AtRest == \A r \in Requests : opc[r] = "idle"

\* new IntentDrivenOutreachAgent(c): the configuration with its defaults, and
\* a ReasoningAgent constructed from the eight components alone.
IntentDrivenOutreachAgent_constructor(c) ==
  /\ AtRest
  /\ config' = DefaultedConfig(c)
  /\ opc' = [r \in Requests |-> "idle"]
  /\ timer' = [r \in Requests |-> "unset"]
  /\ outcome' = [r \in Requests |-> NoResult]
  /\ pc' = [r \in Requests |-> "idle"]
  /\ step' = [r \in Requests |-> 0]
  /\ settled' = [r \in Requests |-> "none"]
  /\ thrown' = [r \in Requests |-> "none"]
  /\ auditLog' = EmptyLog
  /\ lastFailed' = "none"
  /\ revisionAttempts' = [r \in Requests |-> 0]
  /\ currentMessage' = [r \in Requests |-> 0]
  /\ drafts' = [r \in Requests |-> 0]
  /\ verdict' = [r \in Requests |-> NoVerdict]
  /\ input' = [r \in Requests |-> "none"]
  /\ output' = [r \in Requests |-> NoResult]
  /\ innerResult' = [r \in Requests |-> NoResult]
  /\ winner' = [r \in Requests |-> "none"]
  /\ exit' = [r \in Requests |-> NotLeft]
  /\ own' = EmptyLog
  /\ UNCHANGED << args, result >>

\* updateConfig(newConfig): this.config is replaced, nothing else is touched.
updateConfig(newConfig) ==
  /\ AtRest
  /\ config' = Spread(config, newConfig)
  /\ UNCHANGED << opc, timer, outcome, pc, step, settled, thrown, auditLog, lastFailed,
                  revisionAttempts, currentMessage, drafts, verdict, input, output,
                  innerResult, winner, exit, own, args, result >>

ConfigNext ==
  \/ Next
  \/ \E c \in AgentConfigs : IntentDrivenOutreachAgent_constructor(c)
  \/ \E c \in AgentConfigs : updateConfig(c)

ConfigSpec == Init /\ [][ConfigNext]_vars

\* C29: the revision budget is the configured one: a request of an agent
\* created or updated with maxRevisionAttempts = N makes at most N drafts.
C29_ConfiguredBudget ==
  \A r \in Requests : drafts[r] <= config.maxRevisionAttempts

\* An agent configured with a budget of one draft has returned an output.
C29_ConfiguredToOneDraft ==
  \E r \in Requests :
    /\ config.maxRevisionAttempts = 1
    /\ PipelineReturned(r)
    /\ outcome[r].kind = "output"

----------------------------------------------------------------------------
(* The timer of the race *)

\* C30: once a call of processOutreachRequest has returned, no timer that the
\* call started is still pending, whichever of the pipeline and the timer
\* won the race.
C30_NoPendingTimerAfterReturn ==
  \A r \in Requests : opc[r] = "returned" => timer[r] # "pending"

\* The pipeline of a request won the race against a timer that the call had
\* started, and the call has returned the pipeline's result.
C30_PipelineWonTheRace ==
  \E r \in Requests :
    /\ PipelineReturned(r)
    /\ timer[r] # "unset"
    /\ pc[r] = "done"

====
